---------------------------- MODULE Spec2Model ----------------------------
(***************************************************************************)
(* ORKA: monocular visual SLAM in the browser.                             *)
(*                                                                         *)
(* Numbers.  Pixel coordinates are integers.  World lengths (depth,        *)
(* position, translation) are fixed-point integers in thousandths of a     *)
(* world unit, confidences are thousandths, a disparity is kept in tenths  *)
(* of a pixel.  Every division rounds down, as a stand-in for the          *)
(* rounding of the doubles the program computes with.                      *)
(*                                                                         *)
(* A JavaScript reference that may be null is a sequence of length 0       *)
(* (null) or 1 (the value): an empty array [] is a value, not null.        *)
(***************************************************************************)
EXTENDS Integers, Sequences, FiniteSets, TLC

(***************************************************************************)
(* Bounds of the model                                                     *)
(***************************************************************************)
\* keyframes the Mapper may hold before frames that add one are cut off
MaxKeyframes == 4
\* map points the Mapper or the accumulator may hold
MaxPoints == 5
\* capture loops (pending animation-frame callbacks) at one time
MaxLoops == 1
\* startCapture calls awaiting camera initialisation at one time
MaxPendingStarts == 1
\* calls of BundleAdjustment.optimize in one run
MaxOptimize == 1
\* points a store may hold when the stores are called directly
MaxStored == 3
\* bits of a descriptor (the program's descriptorSize is 256)
MaxDescriptorBits == 2

(***************************************************************************)
(* Program constants                                                       *)
(***************************************************************************)
\* Number.POSITIVE_INFINITY, larger than every distance of the model
Infinity == 1000000
\* FeatureTracker
maxDistance == 50
descriptorDistanceThreshold == 1000
\* FeatureTracker.filterMatches: threshold = 3.0 px, minimum of 8 matches
filterThreshold == 3
minMatches == 8
\* PoseEstimator: ransacThreshold = 2.0 px
ransacThreshold == 2
\* Mapper, in thousandths: keyframeThreshold 0.015, minDepth 0.05, maxDepth 100
keyframeThreshold == 15
minDepth == 50
maxDepth == 100000
\* Mapper.minDisparity = 1.5 px, in tenths of a pixel
minDisparity == 15
\* Mapper.depthUncertaintyFactor = 0.1, as a divisor
depthUncertaintyDivisor == 10
\* Mapper.triangulatePointAccurate: focal length (px), baseline 0.1, centre
focalLength == 1200
baseline == 100
cx == 320
cy == 240
\* Mapper.addPoints: confidence limit 0.3; shouldCreateKeyframe: fewer than 3
mapperMinConfidence == 300
bootstrapKeyframes == 3
\* Mapper.mergeNearbyPoints(voxelSize = 0.01)
voxelSize == 10

(***************************************************************************)
(* Helpers                                                                 *)
(***************************************************************************)
Null == <<>>
Some(v) == <<v>>
Abs(n) == IF n < 0 THEN -n ELSE n

RECURSIVE SqrtSearch(_, _, _)
SqrtSearch(n, lo, hi) ==
    IF lo >= hi THEN lo
    ELSE LET mid == (lo + hi + 1) \div 2
         IN  IF mid * mid <= n THEN SqrtSearch(n, mid, hi)
                               ELSE SqrtSearch(n, lo, mid - 1)

\* floor(Math.sqrt(n)) for 0 <= n < 2^31
ISqrt(n) == SqrtSearch(n, 0, 46340)

RECURSIVE SumSeq(_)
SumSeq(s) == IF s = <<>> THEN 0 ELSE Head(s) + SumSeq(Tail(s))

RECURSIVE FlatMap3(_)
\* the flat array x0,y0,z0,x1,y1,z1,... of a sequence of triples
FlatMap3(s) == IF s = <<>> THEN <<>> ELSE Head(s) \o FlatMap3(Tail(s))

Vector3(x, y, z) == [x |-> x, y |-> y, z |-> z]

\* an array given element by element, with its elements computed once
Array(s) == s \o <<>>


(***************************************************************************)
(* FeatureTracker (src/src/slam/tracker.js).  A feature is [x, y]; a       *)
(* descriptor is a sequence of numbers; a match is [queryIdx, trainIdx,    *)
(* distance] with indices counted from 1.                                  *)
(***************************************************************************)
\* the square of euclideanDistance(f1, f2)
euclideanDistance2(f1, f2) ==
    (f1.x - f2.x) * (f1.x - f2.x) + (f1.y - f2.y) * (f1.y - f2.y)

\* the distance with the differences summed as they are, not their absolute values
hammingDistance_Signed(desc1, desc2) ==
    IF Len(desc1) # Len(desc2) THEN Infinity
    ELSE SumSeq([i \in 1..Len(desc1) |-> desc1[i] - desc2[i]])

hammingDistance(desc1, desc2) ==
    IF Len(desc1) # Len(desc2) THEN Infinity
    ELSE SumSeq([i \in 1..Len(desc1) |-> Abs(desc1[i] - desc2[i])])

\* the ratio test with bestDistance / secondBestDistance <= 0.8
ratioTest_NotStrict(bestDistance, secondBestDistance) ==
    \/ secondBestDistance = Infinity
    \/ 10 * bestDistance <= 8 * secondBestDistance

\* bestDistance / secondBestDistance < 0.8; 0 / 0 is NaN and compares false
ratioTest(bestDistance, secondBestDistance) ==
    \/ secondBestDistance = Infinity
    \/ 10 * bestDistance < 8 * secondBestDistance

RECURSIVE matchScan(_, _, _, _, _, _)
\* the inner loop over j of match, from candidate j on
matchScan(f, d, features2, descriptors2, j, acc) ==
    IF j > Len(features2) THEN acc
    ELSE IF euclideanDistance2(f, features2[j]) > maxDistance * maxDistance
         THEN matchScan(f, d, features2, descriptors2, j + 1, acc)
    ELSE LET descDist == hammingDistance(d, descriptors2[j])
             next == IF descDist < acc.bestDistance
                        THEN [bestMatch |-> j,
                              bestDistance |-> descDist,
                              secondBestDistance |-> acc.bestDistance]
                     ELSE IF descDist < acc.secondBestDistance
                        THEN [acc EXCEPT !.secondBestDistance = descDist]
                     ELSE acc
         IN  matchScan(f, d, features2, descriptors2, j + 1, next)

RECURSIVE matchFrom(_, _, _, _, _)
matchFrom(features1, descriptors1, features2, descriptors2, i) ==
    IF i > Len(features1) THEN <<>>
    ELSE LET r == matchScan(features1[i], descriptors1[i], features2, descriptors2, 1,
                            [bestMatch |-> 0, bestDistance |-> Infinity,
                             secondBestDistance |-> Infinity])
             rest == matchFrom(features1, descriptors1, features2, descriptors2, i + 1)
         IN  IF /\ r.bestMatch # 0
                /\ r.bestDistance < descriptorDistanceThreshold
                /\ ratioTest(r.bestDistance, r.secondBestDistance)
             THEN <<[queryIdx |-> i, trainIdx |-> r.bestMatch,
                     distance |-> r.bestDistance]>> \o rest
             ELSE rest

match(features1, descriptors1, features2, descriptors2) ==
    matchFrom(features1, descriptors1, features2, descriptors2, 1)

\* the mean translation of the sample, kept as the sums and their count
estimateTranslation(points1, points2) ==
    IF Len(points1) # Len(points2) \/ Len(points1) = 0
    THEN [dx |-> 0, dy |-> 0, n |-> 1]
    ELSE [dx |-> SumSeq([i \in 1..Len(points1) |-> points2[i].x - points1[i].x]),
          dy |-> SumSeq([i \in 1..Len(points1) |-> points2[i].y - points1[i].y]),
          n  |-> Len(points1)]

\* computeError(p1, p2, model) < threshold, both sides scaled by model.n and squared
errorBelow(p1, p2, model, threshold) ==
    LET ex == model.n * (p2.x - p1.x) - model.dx
        ey == model.n * (p2.y - p1.y) - model.dy
    IN  ex * ex + ey * ey < (threshold * model.n) * (threshold * model.n)

\* the inliers of one iteration, whose randomSample drew `sample` (match indices)
inliersOf(matches, features1, features2, sample) ==
    LET model == estimateTranslation(
                     [k \in 1..Len(sample) |-> features1[matches[sample[k]].queryIdx]],
                     [k \in 1..Len(sample) |-> features2[matches[sample[k]].trainIdx]])
        isInlier(m) == errorBelow(features1[m.queryIdx], features2[m.trainIdx],
                                  model, filterThreshold)
    IN  SelectSeq(matches, isInlier)

RECURSIVE filterIterations_KeepsLast(_, _, _, _, _)
\* the loop of filterMatches that keeps the inliers of its last iteration
filterIterations_KeepsLast(matches, features1, features2, samples, bestInliers) ==
    IF samples = <<>> THEN bestInliers
    ELSE LET inliers == inliersOf(matches, features1, features2, Head(samples))
         IN  filterIterations_KeepsLast(matches, features1, features2, Tail(samples),
                                        inliers)

RECURSIVE filterIterations(_, _, _, _, _)
\* the loop of filterMatches over the samples its iterations draw
filterIterations(matches, features1, features2, samples, bestInliers) ==
    IF samples = <<>> THEN bestInliers
    ELSE LET inliers == inliersOf(matches, features1, features2, Head(samples))
         IN  filterIterations(matches, features1, features2, Tail(samples),
                 IF Len(inliers) > Len(bestInliers) THEN inliers ELSE bestInliers)

\* filterMatches without its first line
filterMatches_AlwaysFilters(matches, features1, features2, samples) ==
    filterIterations(matches, features1, features2, samples, <<>>)

\* filterMatches; samples[k] is what randomSample(matches, 4) returns in iteration k
filterMatches(matches, features1, features2, samples) ==
    IF Len(matches) < minMatches THEN matches
    ELSE filterIterations(matches, features1, features2, samples, <<>>)

(***************************************************************************)
(* FeatureDetector (src/src/slam/featureDetector.js).  A keypoint is       *)
(* [x, y, score, scale]; the corners detectHarrisCorners finds at the      *)
(* three scales are the input of the model.                                *)
(***************************************************************************)
\* detect: nonMaximumSuppression(features, 8)
suppressionRadius == 8

RECURSIVE insertByScore(_, _)
\* the place of a keypoint in a list sorted by (a, b) => b.score - a.score: behind
\* the keypoints that score as much or more (the sort is stable)
insertByScore(sorted, f) ==
    IF sorted = <<>> THEN <<f>>
    ELSE IF Head(sorted).score >= f.score
         THEN <<Head(sorted)>> \o insertByScore(Tail(sorted), f)
    ELSE <<f>> \o sorted

RECURSIVE sortInto(_, _)
sortInto(sorted, features) ==
    IF features = <<>> THEN sorted
    ELSE sortInto(insertByScore(sorted, Head(features)), Tail(features))

RECURSIVE insertByScore_Ascending(_, _)
insertByScore_Ascending(sorted, f) ==
    IF sorted = <<>> THEN <<f>>
    ELSE IF Head(sorted).score <= f.score
         THEN <<Head(sorted)>> \o insertByScore_Ascending(Tail(sorted), f)
    ELSE <<f>> \o sorted

RECURSIVE sortInto_Ascending(_, _)
sortInto_Ascending(sorted, features) ==
    IF features = <<>> THEN sorted
    ELSE sortInto_Ascending(insertByScore_Ascending(sorted, Head(features)),
                            Tail(features))

\* the sort with the comparator (a, b) => a.score - b.score
sortByScore_Ascending(features) == sortInto_Ascending(<<>>, features)

\* features.sort((a, b) => b.score - a.score)
sortByScore(features) == sortInto(<<>>, features)

RECURSIVE suppress(_, _, _)
\* the loop of nonMaximumSuppression over the sorted features
suppress(features, radius, suppressed) ==
    IF features = <<>> THEN suppressed
    ELSE LET feature == Head(features)
             isSuppressed ==
                 \E k \in 1..Len(suppressed) :
                     ISqrt(euclideanDistance2(feature, suppressed[k])) < radius
         IN  suppress(Tail(features), radius,
                      IF isSuppressed THEN suppressed ELSE Append(suppressed, feature))

nonMaximumSuppression(features, radius) ==
    IF Len(features) = 0 THEN <<>>
    ELSE suppress(sortByScore(features), radius, <<>>)

\* detect, from the corners of the three scales on: suppression, sort, slice
detect(corners, maxFeatures) ==
    LET uniqueFeatures == sortByScore(nonMaximumSuppression(corners, suppressionRadius))
    IN  SubSeq(uniqueFeatures, 1,
               IF Len(uniqueFeatures) < maxFeatures THEN Len(uniqueFeatures)
               ELSE maxFeatures)

\* this.descriptorSize
descriptorSize == MaxDescriptorBits

\* gray[y * width + x] of an image [width, height, gray]; the image's pixels
\* have r = g = b, which is the gray toGrayscale gives them
grayAt(imageData, x, y) == imageData.gray[y * imageData.width + x + 1]

inImage(imageData, x, y) ==
    x >= 0 /\ x < imageData.width /\ y >= 0 /\ y < imageData.height

RECURSIVE descriptorLoop(_, _, _, _, _)
\* the loop of computeDescriptor from test i on; draws[i] holds the offsets
\* (floor(r cos(angle)), floor(r sin(angle))) of the two points of test i, made
\* of the four Math.random() of that iteration
descriptorLoop(imageData, feature, draws, descriptor, bitIndex) ==
    IF draws = <<>> \/ bitIndex >= descriptorSize THEN descriptor
    ELSE LET x1 == feature.x + Head(draws)[1][1]
             y1 == feature.y + Head(draws)[1][2]
             x2 == feature.x + Head(draws)[2][1]
             y2 == feature.y + Head(draws)[2][2]
         IN  IF inImage(imageData, x1, y1) /\ inImage(imageData, x2, y2)
             THEN descriptorLoop(imageData, feature, Tail(draws),
                      [descriptor EXCEPT ![bitIndex + 1] =
                           IF grayAt(imageData, x1, y1) < grayAt(imageData, x2, y2)
                           THEN 1 ELSE 0],
                      bitIndex + 1)
             ELSE descriptorLoop(imageData, feature, Tail(draws), descriptor, bitIndex)

\* computeDescriptor in a call whose Math.random() gave `draws`
computeDescriptor(imageData, feature, draws) ==
    descriptorLoop(imageData, feature, draws, [i \in 1..descriptorSize |-> 0], 0)

(***************************************************************************)
(* PoseEstimator (src/unnamed/part_008).  A pose is [R, t]: R the nine     *)
(* entries of the rotation, t a Vector3 in thousandths.                    *)
(***************************************************************************)
identityR == <<1, 0, 0, 0, 1, 0, 0, 0, 1>>

getPoseHypotheses ==
    << [R |-> identityR, t |-> Vector3(50, 0, 100)],
       [R |-> identityR, t |-> Vector3(-50, 0, 100)],
       [R |-> identityR, t |-> Vector3(0, 50, 100)],
       [R |-> identityR, t |-> Vector3(0, -50, 100)] >>

\* epipolarError(p1, p2, F) < ransacThreshold: F is not read
epipolarInlier(p1, p2) ==
    euclideanDistance2(p1, p2) < ransacThreshold * ransacThreshold

\* every iteration computes the same inlier list (the sample only feeds F, which
\* epipolarError ignores), so the best list is that list
ransacFundamentalMatrix(points1, points2) ==
    LET idx == [i \in 1..Len(points1) |-> i]
        ok(i) == epipolarInlier(points1[i], points2[i])
    IN  SelectSeq(idx, ok)

\* PoseEstimator.triangulatePoint: null, or the point (baseline 0.05, fx 1200)
PoseEstimator_triangulatePoint(p1, p2, pose1, pose2) ==
    LET disparity == ISqrt(100 * euclideanDistance2(p1, p2))
    IN  IF disparity < 10 THEN Null
        ELSE LET depth == (focalLength * 50 * 10) \div disparity
             IN  IF depth < 100 \/ depth > 100000 THEN Null
                 ELSE Some(Vector3(((p1.x - cx) * depth) \div focalLength,
                                   ((p1.y - cy) * depth) \div focalLength,
                                   depth))

pointsInFrontOf(pose, points1, points2) ==
    LET n == IF Len(points1) < 10 THEN Len(points1) ELSE 10
        inFront(i) ==
            LET p3d == PoseEstimator_triangulatePoint(points1[i], points2[i],
                           [R |-> identityR, t |-> Vector3(0, 0, 0)], pose)
            IN  p3d # Null /\ p3d[1].z > 0
    IN  Cardinality({i \in 1..n : inFront(i)})

RECURSIVE selectPose(_, _, _, _, _)
selectPose(poses, points1, points2, bestPose, maxPoints) ==
    IF poses = <<>> THEN bestPose
    ELSE LET c == pointsInFrontOf(Head(poses), points1, points2)
         IN  IF c > maxPoints
             THEN selectPose(Tail(poses), points1, points2, Head(poses), c)
             ELSE selectPose(Tail(poses), points1, points2, bestPose, maxPoints)

recoverPoseFromEssential(points1, points2) ==
    selectPose(getPoseHypotheses, points1, points2, getPoseHypotheses[1], 0)

\* estimatePose without its two counts
estimatePose_NoCounts(features1, features2, matches) ==
    Some(recoverPoseFromEssential(
             Array([k \in 1..Len(matches) |-> features1[matches[k].queryIdx]]),
             Array([k \in 1..Len(matches) |-> features2[matches[k].trainIdx]])))

\* estimatePose: Null, or Some(pose)
estimatePose(features1, features2, matches) ==
    IF Len(matches) < 8 THEN Null
    ELSE LET points1 == Array([k \in 1..Len(matches) |-> features1[matches[k].queryIdx]])
             points2 == Array([k \in 1..Len(matches) |-> features2[matches[k].trainIdx]])
             bestInliers == ransacFundamentalMatrix(points1, points2)
         IN  IF Len(bestInliers) < 8 THEN Null
             ELSE Some(recoverPoseFromEssential(
                      Array([k \in 1..Len(bestInliers) |-> points1[bestInliers[k]]]),
                      Array([k \in 1..Len(bestInliers) |-> points2[bestInliers[k]]])))

\* estimatePose of the estimator without RANSAC (src/unnamed/part_007): Null, or
\* the one pose recoverPose returns, which selectBestPose selects
Plain_estimatePose(features1, features2, matches) ==
    IF Len(matches) < 8 THEN Null
    ELSE Some([R |-> identityR, t |-> Vector3(0, 0, 0)])


(***************************************************************************)
(* Mapper (src/src/slam/mapper.js).  A map point is [position, color,      *)
(* confidence, depth, uncertainty]; a field the object does not have is    *)
(* Undefined.  A keyframe is [id, pose, features].                         *)
(***************************************************************************)
Undefined == 0 - 1
\* JavaScript truthiness of a number field: undefined and 0 are falsy
Truthy(v) == v # Undefined /\ v # 0

white == [r |-> 255, g |-> 255, b |-> 255]

\* the pixel disparity sqrt(dx*dx + dy*dy), in tenths of a pixel
disparityOf(f1, f2) == ISqrt(100 * euclideanDistance2(f1, f2))

transformToWorldCoordinates(cameraPoint, pose) ==
    Vector3(cameraPoint.x + pose.t.x, cameraPoint.y + pose.t.y, cameraPoint.z + pose.t.z)

\* depth = focalLength * baseline / disparity, in thousandths (Infinity at 0)
depthOf(disparity) ==
    IF disparity = 0 THEN Infinity * 1000
    ELSE (focalLength * baseline * 10) \div disparity

\* triangulatePointAccurate that clamps the depth to [minDepth, maxDepth]
triangulatePointAccurate_Clamps(f1, f2, pose1, pose2, disparity) ==
    LET raw == depthOf(disparity)
        depth == IF raw < minDepth THEN minDepth
                 ELSE IF raw > maxDepth THEN maxDepth ELSE raw
        x == ((f1.x - cx) * depth) \div focalLength
        y == ((f1.y - cy) * depth) \div focalLength
        uncertainty == depth \div depthUncertaintyDivisor
        confidence == 1000000 \div (1000 + uncertainty)
    IN  Some([point |-> transformToWorldCoordinates(Vector3(x, y, depth), pose1),
              depth |-> depth,
              uncertainty |-> uncertainty,
              confidence |-> confidence,
              disparity |-> disparity])

\* triangulatePointAccurate whose confidence is 1 / uncertainty
triangulatePointAccurate_InverseUncertainty(f1, f2, pose1, pose2, disparity) ==
    LET depth == depthOf(disparity)
    IN  IF depth < minDepth \/ depth > maxDepth THEN Null
        ELSE LET x == ((f1.x - cx) * depth) \div focalLength
                 y == ((f1.y - cy) * depth) \div focalLength
                 uncertainty == depth \div depthUncertaintyDivisor
                 confidence == 1000000 \div uncertainty
             IN  Some([point |-> transformToWorldCoordinates(Vector3(x, y, depth), pose1),
                       depth |-> depth,
                       uncertainty |-> uncertainty,
                       confidence |-> confidence,
                       disparity |-> disparity])

\* triangulatePointAccurate: Null, or Some([point, depth, uncertainty, confidence])
triangulatePointAccurate(f1, f2, pose1, pose2, disparity) ==
    LET depth == depthOf(disparity)
    IN  IF depth < minDepth \/ depth > maxDepth THEN Null
        ELSE LET x == ((f1.x - cx) * depth) \div focalLength
                 y == ((f1.y - cy) * depth) \div focalLength
                 uncertainty == depth \div depthUncertaintyDivisor
                 confidence == 1000000 \div (1000 + uncertainty)
             IN  Some([point |-> transformToWorldCoordinates(Vector3(x, y, depth), pose1),
                       depth |-> depth,
                       uncertainty |-> uncertainty,
                       confidence |-> confidence,
                       disparity |-> disparity])

isValidPoint(point) ==
    /\ point.z > minDepth
    /\ point.z < maxDepth
    /\ Abs(point.x) < maxDepth
    /\ Abs(point.y) < maxDepth

\* the body of the loop of triangulatePoints for one match: <<>> or <<point>>
triangulateMatch(features1, features2, pose1, pose2, m) ==
    LET f1 == features1[m.queryIdx]
        f2 == features2[m.trainIdx]
        disparity == disparityOf(f1, f2)
    IN  IF disparity < minDisparity THEN <<>>
        ELSE LET triangulation == triangulatePointAccurate(f1, f2, pose1, pose2, disparity)
             IN  IF triangulation # Null /\ isValidPoint(triangulation[1].point)
                 THEN <<[position |-> triangulation[1].point,
                         color |-> white,
                         confidence |-> triangulation[1].confidence,
                         depth |-> triangulation[1].depth,
                         uncertainty |-> triangulation[1].uncertainty]>>
                 ELSE <<>>

RECURSIVE triangulatePoints(_, _, _, _, _)
triangulatePoints(features1, features2, pose1, pose2, matches) ==
    IF matches = <<>> THEN <<>>
    ELSE triangulateMatch(features1, features2, pose1, pose2, Head(matches))
         \o triangulatePoints(features1, features2, pose1, pose2, Tail(matches))

\* addPoints: the point is skipped when (point.confidence && point.confidence < 0.3)
Mapper_keeps(point) ==
    ~(Truthy(point.confidence) /\ point.confidence < mapperMinConfidence)

Mapper_addPoints(store, points) == store \o SelectSeq(points, Mapper_keeps)

\* clear that leaves currentKeyframeId as it is
Mapper_clear_KeepsCounter(m) == [m EXCEPT !.points3D = <<>>, !.keyframes = <<>>]

\* clear(): points3D and keyframes emptied, currentKeyframeId back to 0
Mapper_clear(m) == [points3D |-> <<>>, keyframes |-> <<>>, currentKeyframeId |-> 0]

addKeyframe(kfs, id, pose, features) ==
    Append(kfs, [id |-> id, pose |-> pose, features |-> features])

\* shouldCreateKeyframe without the bootstrap minimum
shouldCreateKeyframe_NoBootstrap(currentPose, kfs) ==
    IF kfs = <<>> THEN TRUE
    ELSE LET last == kfs[Len(kfs)].pose.t
             dx == currentPose.t.x - last.x
             dy == currentPose.t.y - last.y
             dz == currentPose.t.z - last.z
         IN  dx * dx + dy * dy + dz * dz > keyframeThreshold * keyframeThreshold

\* shouldCreateKeyframe(currentPose, lastKeyframe) with lastKeyframe = kfs[Len(kfs)]
shouldCreateKeyframe(currentPose, kfs) ==
    IF kfs = <<>> THEN TRUE
    ELSE LET last == kfs[Len(kfs)].pose.t
             dx == currentPose.t.x - last.x
             dy == currentPose.t.y - last.y
             dz == currentPose.t.z - last.z
         IN  \/ dx * dx + dy * dy + dz * dz > keyframeThreshold * keyframeThreshold
             \/ Len(kfs) < bootstrapKeyframes

\* the voxel of a position: Math.floor of each coordinate over the voxel size
voxelKey(position, size) ==
    <<position.x \div size, position.y \div size, position.z \div size>>

RECURSIVE voxelKeys(_, _)
\* the keys of the Map, in insertion order: each voxel at its first point
voxelKeys(keys, seen) ==
    IF keys = <<>> THEN <<>>
    ELSE IF Head(keys) \in seen THEN voxelKeys(Tail(keys), seen)
    ELSE <<Head(keys)>> \o voxelKeys(Tail(keys), seen \cup {Head(keys)})

\* Math.round(sum / n) for sum >= 0
roundDiv(sum, n) == (2 * sum + n) \div (2 * n)

\* averagePoints that divides the confidences by one more than their number
averagePoints_ConfidenceOverNext(points) ==
    LET n == Len(points)
        conf(p) == IF Truthy(p.confidence) THEN p.confidence ELSE 0
    IN  [position |-> Vector3(SumSeq([i \in 1..n |-> points[i].position.x]) \div n,
                              SumSeq([i \in 1..n |-> points[i].position.y]) \div n,
                              SumSeq([i \in 1..n |-> points[i].position.z]) \div n),
         color |-> [r |-> roundDiv(SumSeq([i \in 1..n |-> points[i].color.r]), n),
                    g |-> roundDiv(SumSeq([i \in 1..n |-> points[i].color.g]), n),
                    b |-> roundDiv(SumSeq([i \in 1..n |-> points[i].color.b]), n)],
         confidence |-> SumSeq([i \in 1..n |-> conf(points[i])]) \div (n + 1),
         depth |-> Undefined,
         uncertainty |-> Undefined]

averagePoints(points) ==
    LET n == Len(points)
        conf(p) == IF Truthy(p.confidence) THEN p.confidence ELSE 0
    IN  [position |-> Vector3(SumSeq([i \in 1..n |-> points[i].position.x]) \div n,
                              SumSeq([i \in 1..n |-> points[i].position.y]) \div n,
                              SumSeq([i \in 1..n |-> points[i].position.z]) \div n),
         color |-> [r |-> roundDiv(SumSeq([i \in 1..n |-> points[i].color.r]), n),
                    g |-> roundDiv(SumSeq([i \in 1..n |-> points[i].color.g]), n),
                    b |-> roundDiv(SumSeq([i \in 1..n |-> points[i].color.b]), n)],
         confidence |-> SumSeq([i \in 1..n |-> conf(points[i])]) \div n,
         depth |-> Undefined,
         uncertainty |-> Undefined]

Mapper_mergeNearbyPoints(store) ==
    LET keyAt(i) == voxelKey(store[i].position, voxelSize)
        keys == voxelKeys([i \in 1..Len(store) |-> keyAt(i)], {})
        inVoxel(k) == LET same(p) == voxelKey(p.position, voxelSize) = k
                      IN  SelectSeq(store, same)
    IN  Array([k \in 1..Len(keys) |-> averagePoints(inVoxel(keys[k]))])


(***************************************************************************)
(* PointCloudBuilder, the accumulator (src/unnamed/part_004): the object   *)
(* is [points, colors, confidences, depths], points and colors flat.       *)
(* Colours are thousandths of full intensity.                              *)
(***************************************************************************)
\* constructor: minConfidence 0.2, voxelGridSize 0.01
minConfidence == 200
voxelGridSize == 10

NoColor == [r |-> Undefined, g |-> Undefined, b |-> Undefined]

emptyCloud == [points |-> <<>>, colors |-> <<>>, confidences |-> <<>>, depths |-> <<>>]

\* the entries addPoints pushes for one accepted point
cloudEntry(point) ==
    [points |-> <<point.position.x, point.position.y, point.position.z>>,
     colors |-> IF point.color # NoColor
                THEN <<(point.color.r * 1000) \div 255,
                       (point.color.g * 1000) \div 255,
                       (point.color.b * 1000) \div 255>>
                ELSE <<1000, 1000, 1000>>,
     confidences |-> <<IF Truthy(point.confidence) THEN point.confidence ELSE 1000>>,
     depths |-> <<IF Truthy(point.depth) THEN point.depth
                  ELSE ISqrt(point.position.x * point.position.x
                             + point.position.y * point.position.y
                             + point.position.z * point.position.z)>>]

\* the confidence filter of addPoints
PointCloudBuilder_skips(point) ==
    point.confidence # Undefined /\ point.confidence < minConfidence

RECURSIVE PointCloudBuilder_addPoints(_, _)
PointCloudBuilder_addPoints(pc, points3D) ==
    IF points3D = <<>> THEN pc
    ELSE IF PointCloudBuilder_skips(Head(points3D))
         THEN PointCloudBuilder_addPoints(pc, Tail(points3D))
    ELSE LET e == cloudEntry(Head(points3D))
         IN  PointCloudBuilder_addPoints(
                 [points |-> pc.points \o e.points,
                  colors |-> pc.colors \o e.colors,
                  confidences |-> pc.confidences \o e.confidences,
                  depths |-> pc.depths \o e.depths],
                 Tail(points3D))

\* clear(): the four arrays emptied
PointCloudBuilder_clear(pc) == emptyCloud

\* getPointCount: this.points.length / 3
getPointCount(pc) == Len(pc.points) \div 3

\* new Float32Array(...): 24 significant bits, exact for the integers below 2^24
toFloat32(v) == IF Abs(v) < 16777216 THEN v ELSE 2 * ((v + 1) \div 2)

SeqMin(s) == CHOOSE v \in {s[i] : i \in 1..Len(s)} : \A i \in 1..Len(s) : v <= s[i]
SeqMax(s) == CHOOSE v \in {s[i] : i \in 1..Len(s)} : \A i \in 1..Len(s) : v >= s[i]

\* hsvToRGB(h, 0.9, v) with hPrime = h / 60 and v in thousandths
hsvToRGB(hPrime, v) ==
    LET c == (v * 900) \div 1000
        x == (c * (1000 - Abs((hPrime % 2000) - 1000))) \div 1000
        m == v - c
        rgb == IF hPrime < 1000 THEN <<c, x, 0>>
               ELSE IF hPrime < 2000 THEN <<x, c, 0>>
               ELSE IF hPrime < 3000 THEN <<0, c, x>>
               ELSE IF hPrime < 4000 THEN <<0, x, c>>
               ELSE IF hPrime < 5000 THEN <<x, 0, c>>
               ELSE <<c, 0, x>>
        clamp(u) == IF u < 0 THEN 0 ELSE IF u > 1000 THEN 1000 ELSE u
    IN  <<clamp(rgb[1] + m), clamp(rgb[2] + m), clamp(rgb[3] + m)>>

\* depthToRGB: hue (1 - normalized) * 240, value 0.8 + normalized * 0.2
depthToRGB(normalized) == hsvToRGB((1000 - normalized) * 4, 800 + normalized \div 5)

computeDepthColors(pc) ==
    IF pc.depths = <<>> THEN [i \in 1..Len(pc.points) |-> 1000]
    ELSE LET lo == SeqMin(pc.depths)
             hi == SeqMax(pc.depths)
             depthRange == IF hi - lo = 0 THEN 1000 ELSE hi - lo
         IN  FlatMap3([i \in 1..Len(pc.depths) |->
                 depthToRGB(((pc.depths[i] - lo) * 1000) \div depthRange)])

\* getPointCloudData; the empty snapshot has no confidences and no depths
getPointCloudData(pc) ==
    IF Len(pc.points) = 0
    THEN [positions |-> <<>>, colors |-> <<>>, count |-> 0,
          confidences |-> <<>>, depths |-> <<>>, hasConfidences |-> FALSE]
    ELSE [positions |-> [i \in 1..Len(pc.points) |-> toFloat32(pc.points[i])],
          colors |-> computeDepthColors(pc),
          count |-> Len(pc.points) \div 3,
          confidences |-> [i \in 1..Len(pc.confidences) |-> toFloat32(pc.confidences[i])],
          depths |-> [i \in 1..Len(pc.depths) |-> toFloat32(pc.depths[i])],
          hasConfidences |-> TRUE]

\* the voxel of point i of the flat array
cloudVoxel(pc, i) ==
    <<pc.points[3 * i - 2] \div voxelGridSize,
      pc.points[3 * i - 1] \div voxelGridSize,
      pc.points[3 * i] \div voxelGridSize>>

PointCloudBuilder_mergeNearbyPoints(pc) ==
    LET pointCount == Len(pc.points) \div 3
        keys == voxelKeys([i \in 1..pointCount |-> cloudVoxel(pc, i)], {})
        indices(k) == LET same(i) == cloudVoxel(pc, i) = keys[k]
                      IN  SelectSeq([i \in 1..pointCount |-> i], same)
        avg(k, arr, width, off) ==
            SumSeq([j \in 1..Len(indices(k)) |-> arr[width * (indices(k)[j] - 1) + off]])
                \div Len(indices(k))
    IN  [points |-> FlatMap3([k \in 1..Len(keys) |->
                       <<avg(k, pc.points, 3, 1), avg(k, pc.points, 3, 2),
                         avg(k, pc.points, 3, 3)>>]),
         colors |-> FlatMap3([k \in 1..Len(keys) |->
                       <<avg(k, pc.colors, 3, 1), avg(k, pc.colors, 3, 2),
                         avg(k, pc.colors, 3, 3)>>]),
         confidences |-> [k \in 1..Len(keys) |-> avg(k, pc.confidences, 1, 1)],
         depths |-> [k \in 1..Len(keys) |-> avg(k, pc.depths, 1, 1)]]

\* filterOutliers: at least 9 points (27 coordinates), 2.0 standard deviations
outlierMinLength == 27
outlierDeviations == 2
\* findNeighbors(radius = 0.05)
neighborRadius == 50

\* the distance sqrt(dx*dx + dy*dy + dz*dz) between points i and j of a flat array,
\* in hundredths of a thousandth (the statistics of the filters are kept in this
\* unit); the points are less than 0.46 apart
pointDistance(points, i, j) ==
    LET dx == points[3 * i - 2] - points[3 * j - 2]
        dy == points[3 * i - 1] - points[3 * j - 1]
        dz == points[3 * i] - points[3 * j]
    IN  ISqrt(10000 * (dx * dx + dy * dy + dz * dz))

\* findNeighbors: for every point the indices of the others closer than the radius
findNeighbors(pc) ==
    LET pointCount == Len(pc.points) \div 3
        idx == [j \in 1..pointCount |-> j]
    IN  Array([i \in 1..pointCount |->
            LET near(j) == j # i /\ pointDistance(pc.points, i, j) < 100 * neighborRadius
            IN  SelectSeq(idx, near)])

\* the mean distance of every point to its neighbours, Infinity without neighbours
neighborDistances(pc) ==
    LET neighbors == findNeighbors(pc)
    IN  Array([i \in 1..Len(neighbors) |->
            IF Len(neighbors[i]) = 0 THEN Infinity
            ELSE SumSeq([k \in 1..Len(neighbors[i]) |->
                            pointDistance(pc.points, i, neighbors[i][k])])
                 \div Len(neighbors[i])])

\* mean + deviations * stdDev of a non-empty list of numbers; every square is
\* divided by n before the squares are added
deviationThreshold(values, deviations) ==
    LET n == Len(values)
        mean == SumSeq(values) \div n
        variance == SumSeq([i \in 1..n |->
                               ((values[i] - mean) * (values[i] - mean)) \div n])
    IN  mean + deviations * ISqrt(variance)

\* filterByCondition that leaves the depths as they are
filterByCondition_KeepsDepths(pc, keep) ==
    LET pointCount == Len(pc.points) \div 3
        kept(i) == keep[i]
        sel == SelectSeq([i \in 1..pointCount |-> i], kept)
    IN  [points |-> FlatMap3([k \in 1..Len(sel) |->
                       <<pc.points[3 * sel[k] - 2], pc.points[3 * sel[k] - 1],
                         pc.points[3 * sel[k]]>>]),
         colors |-> FlatMap3([k \in 1..Len(sel) |->
                       <<pc.colors[3 * sel[k] - 2], pc.colors[3 * sel[k] - 1],
                         pc.colors[3 * sel[k]]>>]),
         confidences |-> Array([k \in 1..Len(sel) |-> pc.confidences[sel[k]]]),
         depths |-> pc.depths]

\* filterByCondition: the points whose index satisfies the condition, in their order;
\* keep[i] is condition(i)
filterByCondition(pc, keep) ==
    LET pointCount == Len(pc.points) \div 3
        kept(i) == keep[i]
        sel == SelectSeq([i \in 1..pointCount |-> i], kept)
    IN  [points |-> FlatMap3([k \in 1..Len(sel) |->
                       <<pc.points[3 * sel[k] - 2], pc.points[3 * sel[k] - 1],
                         pc.points[3 * sel[k]]>>]),
         colors |-> FlatMap3([k \in 1..Len(sel) |->
                       <<pc.colors[3 * sel[k] - 2], pc.colors[3 * sel[k] - 1],
                         pc.colors[3 * sel[k]]>>]),
         confidences |-> Array([k \in 1..Len(sel) |-> pc.confidences[sel[k]]]),
         depths |-> Array([k \in 1..Len(sel) |-> pc.depths[sel[k]]])]

\* filterOutliers that keeps every point when no distance is finite
filterOutliers_KeepsWithoutMean(pc) ==
    IF Len(pc.points) < outlierMinLength THEN pc
    ELSE LET distances == neighborDistances(pc)
             isFinite(d) == d # Infinity
             finite == SelectSeq(distances, isFinite)
         IN  IF finite = <<>>
             THEN pc
             ELSE LET outlierThreshold == deviationThreshold(finite, outlierDeviations)
                  IN  filterByCondition(pc,
                          Array([i \in 1..Len(distances) |->
                                    distances[i] <= outlierThreshold]))

\* filterOutliers; without a finite distance the mean is NaN and no point is kept
filterOutliers(pc) ==
    IF Len(pc.points) < outlierMinLength THEN pc
    ELSE LET distances == neighborDistances(pc)
             isFinite(d) == d # Infinity
             finite == SelectSeq(distances, isFinite)
         IN  IF finite = <<>>
             THEN filterByCondition(pc, [i \in 1..Len(distances) |-> FALSE])
             ELSE LET outlierThreshold == deviationThreshold(finite, outlierDeviations)
                  IN  filterByCondition(pc,
                          Array([i \in 1..Len(distances) |->
                                    distances[i] <= outlierThreshold]))

(***************************************************************************)
(* PointCloudBuilder, the plain version                                    *)
(* (src/src/reconstruction/pointCloudBuilder.js): [points, colors].        *)
(***************************************************************************)
emptyPlainCloud == [points |-> <<>>, colors |-> <<>>]

RECURSIVE Plain_addPoints(_, _)
Plain_addPoints(pc, points3D) ==
    IF points3D = <<>> THEN pc
    ELSE LET e == cloudEntry(Head(points3D))
         IN  Plain_addPoints([points |-> pc.points \o e.points,
                              colors |-> pc.colors \o e.colors],
                             Tail(points3D))

Plain_clear(pc) == emptyPlainCloud

Plain_getPointCloudData(pc) ==
    [positions |-> [i \in 1..Len(pc.points) |-> toFloat32(pc.points[i])],
     colors |-> [i \in 1..Len(pc.colors) |-> toFloat32(pc.colors[i])],
     count |-> Len(pc.points) \div 3]


\* filterOutliers of the plain version: at least 3 points, mean + 2 * std
plainOutlierMinLength == 9
plainOutlierDeviations == 2

\* the distance of every point from the centroid of the cloud, in hundredths of a
\* thousandth, as is the centroid
centroidDistances(pc) ==
    LET count == Len(pc.points) \div 3
        ccx == (100 * SumSeq([i \in 1..count |-> pc.points[3 * i - 2]])) \div count
        ccy == (100 * SumSeq([i \in 1..count |-> pc.points[3 * i - 1]])) \div count
        ccz == (100 * SumSeq([i \in 1..count |-> pc.points[3 * i]])) \div count
        dx(i) == 100 * pc.points[3 * i - 2] - ccx
        dy(i) == 100 * pc.points[3 * i - 1] - ccy
        dz(i) == 100 * pc.points[3 * i] - ccz
    IN  Array([i \in 1..count |->
            ISqrt(dx(i) * dx(i) + dy(i) * dy(i) + dz(i) * dz(i))])

Plain_filterOutliers(pc) ==
    IF Len(pc.points) < plainOutlierMinLength THEN pc
    ELSE LET distances == centroidDistances(pc)
             threshold == deviationThreshold(distances, plainOutlierDeviations)
             kept(i) == distances[i] < threshold
             sel == SelectSeq([i \in 1..Len(distances) |-> i], kept)
         IN  [points |-> FlatMap3([k \in 1..Len(sel) |->
                            <<pc.points[3 * sel[k] - 2], pc.points[3 * sel[k] - 1],
                              pc.points[3 * sel[k]]>>]),
              colors |-> FlatMap3([k \in 1..Len(sel) |->
                            <<pc.colors[3 * sel[k] - 2], pc.colors[3 * sel[k] - 1],
                              pc.colors[3 * sel[k]]>>])]


(***************************************************************************)
(* BundleAdjustment (src/unnamed/part_005, the second class).              *)
(***************************************************************************)
iterations == 5
windowSize == 3

\* triangulateLLS: the average of the observed positions
triangulateLLS(observations) ==
    LET n == Len(observations)
    IN  Vector3(SumSeq([i \in 1..n |-> observations[i].x]) \div n,
                SumSeq([i \in 1..n |-> observations[i].y]) \div n,
                SumSeq([i \in 1..n |-> observations[i].z]) \div n)

\* refinePoints for one point: findPointObservations gives one observation, the
\* point's own position, per keyframe of the window
refinePoint(window, point) ==
    LET observations == [k \in 1..Len(window) |-> point.position]
    IN  IF Len(observations) < 2 THEN point
        ELSE LET r == triangulateLLS(observations)
             IN  [point EXCEPT !.position =
                     Vector3((point.position.x * 7 + r.x * 3) \div 10,
                             (point.position.y * 7 + r.y * 3) \div 10,
                             (point.position.z * 7 + r.z * 3) \div 10)]

refinePoints(window, points3D) ==
    Array([i \in 1..Len(points3D) |-> refinePoint(window, points3D[i])])

\* computePoseDelta scaled by learningRate, in thousandths: the step added to t
computePoseDelta(kf, points3D) ==
    LET n == Len(points3D)
        feature == kf.features[1]
        errX(p) == ((p.position.x - kf.pose.t.x) * focalLength) \div p.position.z
                   + cx - feature.x
        errY(p) == ((p.position.y - kf.pose.t.y) * focalLength) \div p.position.z
                   + cy - feature.y
        sumDx == SumSeq([i \in 1..n |-> errX(points3D[i])])
        sumDy == SumSeq([i \in 1..n |-> errY(points3D[i])])
        sumDz == SumSeq([i \in 1..n |->
                     ISqrt(errX(points3D[i]) * errX(points3D[i])
                           + errY(points3D[i]) * errY(points3D[i]))])
    IN  [tx |-> 0 - (sumDx \div n), ty |-> 0 - (sumDy \div n),
         tz |-> 0 - (sumDz \div (2 * n))]

\* refinePoses with its loop from the first keyframe of the window on
refinePose_FromFirst(window, i, points3D) ==
    LET kf == window[i]
        observed == IF Len(kf.features) > 0 THEN Len(points3D) ELSE 0
    IN  IF observed < 4 THEN kf
        ELSE LET delta == computePoseDelta(kf, points3D)
             IN  [kf EXCEPT !.pose.t = Vector3(kf.pose.t.x + delta.tx,
                                               kf.pose.t.y + delta.ty,
                                               kf.pose.t.z + delta.tz)]

\* refinePoses for the keyframe at place i of the window
refinePose(window, i, points3D) ==
    LET kf == window[i]
        observed == IF Len(kf.features) > 0 THEN Len(points3D) ELSE 0
    IN  IF i = 1 \/ observed < 4 THEN kf
        ELSE LET delta == computePoseDelta(kf, points3D)
             IN  [kf EXCEPT !.pose.t = Vector3(kf.pose.t.x + delta.tx,
                                               kf.pose.t.y + delta.ty,
                                               kf.pose.t.z + delta.tz)]

refinePoses(window, points3D) ==
    Array([i \in 1..Len(window) |-> refinePose(window, i, points3D)])

RECURSIVE optimizePasses(_, _, _)
optimizePasses(window, points3D, iter) ==
    IF iter = 0 THEN [window |-> window, points3D |-> points3D]
    ELSE LET pts == refinePoints(window, points3D)
         IN  optimizePasses(refinePoses(window, pts), pts, iter - 1)

\* optimize that returns the keyframes of its window ahead of the older ones
optimize_WindowFirst(kfs, points3D) ==
    IF Len(kfs) < 2 \/ Len(points3D) < 5
    THEN [keyframes |-> kfs, points3D |-> points3D]
    ELSE LET first == IF Len(kfs) > windowSize THEN Len(kfs) - windowSize + 1 ELSE 1
             r == optimizePasses(SubSeq(kfs, first, Len(kfs)), points3D, iterations)
         IN  [keyframes |-> r.window \o SubSeq(kfs, 1, first - 1),
              points3D |-> r.points3D]

\* optimize(keyframes, points3D); the window holds the keyframe objects themselves,
\* so what it changes is changed in keyframes
optimize(kfs, points3D) ==
    IF Len(kfs) < 2 \/ Len(points3D) < 5
    THEN [keyframes |-> kfs, points3D |-> points3D]
    ELSE LET first == IF Len(kfs) > windowSize THEN Len(kfs) - windowSize + 1 ELSE 1
             r == optimizePasses(SubSeq(kfs, first, Len(kfs)), points3D, iterations)
         IN  [keyframes |-> SubSeq(kfs, 1, first - 1) \o r.window,
              points3D |-> r.points3D]


(***************************************************************************)
(* The state of the program                                                *)
(***************************************************************************)
VARIABLES
    app,               \* SLAMApp: isCapturing, lastFeatures, lastDescriptors, lastPose
    mapper,            \* Mapper: points3D, keyframes, currentKeyframeId
    pointCloudBuilder, \* PointCloudBuilder: points, colors, confidences, depths
    plainCloud,        \* the plain PointCloudBuilder: points, colors
    cameraCapture,     \* CameraCapture: stream, isCapturing, frameCallbacks, animationFrameId
    rafPending,        \* the browser's pending requestAnimationFrame callbacks (ids)
    startsPending,     \* startCapture calls suspended at `await initialize`
    optimizeCalls,     \* calls of BundleAdjustment.optimize so far
    call,              \* the last call made by a caller of a component, with its arguments
    offered            \* points offered to the accumulators since they were cleared

vars == <<app, mapper, pointCloudBuilder, plainCloud, cameraCapture, rafPending,
          startsPending, optimizeCalls, call, offered>>

(***************************************************************************)
(* Camera frames.  A frame is what the detector finds in it: features and  *)
(* their descriptors.  The features of a frame lie more than maxDistance   *)
(* apart, so a feature has one candidate in the next frame.                *)
(***************************************************************************)
gridFeature(i, dx, dy) == [x |-> 60 * i + dx, y |-> 120 + dy]
gridDescriptor(i) == <<i % 2, (i \div 2) % 2>>

frameOf(n, shift) ==
    [features |-> Array([i \in 1..n |-> gridFeature(i, shift[i][1], shift[i][2])]),
     descriptors |-> Array([i \in 1..n |-> gridDescriptor(i)])]

\* an image without corners
FrameEmpty == [features |-> <<>>, descriptors |-> <<>>]
\* thirteen corners
FrameBase == frameOf(13, [i \in 1..13 |-> <<0, 0>>])
\* the thirteen corners: eight moved by one pixel and five near ones moved by six
FrameParallax == frameOf(13, [i \in 1..13 |-> IF i <= 8 THEN <<1, 0>> ELSE <<6, 0>>])

\* the thirteen corners, all moved by two pixels
FrameFast == frameOf(13, [i \in 1..13 |-> <<2, 0>>])

Frames == {FrameEmpty, FrameBase, FrameParallax, FrameFast}

(***************************************************************************)
(* SLAMApp (src/src/main.js)                                               *)
(***************************************************************************)
initialPose == [R |-> identityR, t |-> Vector3(0, 0, 0)]

\* what randomSample(matches, 4) may return: four distinct matches (the mean
\* translation does not depend on their order)
Samples(n) ==
    IF n < minMatches THEN {<<>>}
    ELSE UNION { UNION { UNION { {<<a, b, c, d>> : d \in (c + 1)..n}
                                 : c \in (b + 1)..n }
                         : b \in (a + 1)..n }
                 : a \in 1..n }

\* what tracking a frame against the previous one may give: filterMatches returns
\* the inliers of the first largest sample of its iterations, hence of any one
\* sample, and estimatePose is computed from them
trackResults(features1, descriptors1, frame) ==
    LET matches == match(features1, descriptors1, frame.features, frame.descriptors)
        filtered == {filterMatches(matches, features1, frame.features, <<q>>)
                        : q \in Samples(Len(matches))}
    IN  {[filteredMatches |-> fm,
          pose |-> IF Len(fm) >= minMatches
                   THEN estimatePose(features1, frame.features, fm)
                   ELSE Null] : fm \in filtered}

\* trackResults for every pair of frames of the catalogue, computed once
TrackTable ==
    {<<p, f, trackResults(p.features, p.descriptors, f)>> : p \in Frames, f \in Frames}

NotTracked == [filteredMatches |-> <<>>, pose |-> Null]

\* what processFrame may obtain from match, filterMatches and estimatePose for a
\* frame; NotTracked when the frame takes the first-frame branch
trackChoices(a, frame) ==
    IF a.lastFeatures # Null /\ a.lastDescriptors # Null /\ Len(frame.features) > 0
    THEN (CHOOSE e \in TrackTable :
              /\ e[1].features = a.lastFeatures[1]
              /\ e[1].descriptors = a.lastDescriptors[1]
              /\ e[2] = frame)[3]
    ELSE {NotTracked}

\* the tracked branch with `this.lastPose = pose` after the test of the pose, not
\* inside it
processMatches_PoseAlways(st, frame, tracked) ==
    LET a == st.app
        m == st.mapper
        filteredMatches == tracked.filteredMatches
        pose == tracked.pose
    IN  IF Len(filteredMatches) >= minMatches /\ pose # Null /\ Len(filteredMatches) > 0
        THEN LET newPoints ==
                     IF a.lastPose # Null
                     THEN triangulatePoints(a.lastFeatures[1], frame.features,
                                            a.lastPose[1], pose[1], filteredMatches)
                     ELSE <<>>
                 store == IF Len(newPoints) > 0
                          THEN Mapper_addPoints(m.points3D, newPoints)
                          ELSE m.points3D
                 cloud == IF Len(newPoints) > 0
                          THEN PointCloudBuilder_addPoints(st.pointCloudBuilder, newPoints)
                          ELSE st.pointCloudBuilder
                 create == shouldCreateKeyframe(pose[1], m.keyframes)
             IN  [app |-> [a EXCEPT !.lastPose = pose,
                                    !.lastPoseKeyframe =
                                        IF create THEN Len(m.keyframes) + 1 ELSE 0],
                  mapper |->
                      [points3D |-> store,
                       keyframes |-> IF create
                                     THEN addKeyframe(m.keyframes, m.currentKeyframeId,
                                                      pose[1], frame.features)
                                     ELSE m.keyframes,
                       currentKeyframeId |-> IF create THEN m.currentKeyframeId + 1
                                             ELSE m.currentKeyframeId],
                  pointCloudBuilder |-> cloud]
        ELSE [st EXCEPT !.app.lastPose = pose, !.app.lastPoseKeyframe = 0]

\* lines 151-186: the frame has its filtered matches, and its pose when these are
\* eight or more
processMatches(st, frame, tracked) ==
    LET a == st.app
        m == st.mapper
        filteredMatches == tracked.filteredMatches
        pose == tracked.pose
    IN  IF Len(filteredMatches) >= minMatches /\ pose # Null /\ Len(filteredMatches) > 0
        THEN LET newPoints ==
                     IF a.lastPose # Null
                     THEN triangulatePoints(a.lastFeatures[1], frame.features,
                                            a.lastPose[1], pose[1], filteredMatches)
                     ELSE <<>>
                 store == IF Len(newPoints) > 0
                          THEN Mapper_addPoints(m.points3D, newPoints)
                          ELSE m.points3D
                 cloud == IF Len(newPoints) > 0
                          THEN PointCloudBuilder_addPoints(st.pointCloudBuilder, newPoints)
                          ELSE st.pointCloudBuilder
                 create == shouldCreateKeyframe(pose[1], m.keyframes)
             IN  [app |-> [a EXCEPT !.lastPose = pose,
                                    !.lastPoseKeyframe =
                                        IF create THEN Len(m.keyframes) + 1 ELSE 0],
                  mapper |->
                      [points3D |-> store,
                       keyframes |-> IF create
                                     THEN addKeyframe(m.keyframes, m.currentKeyframeId,
                                                      pose[1], frame.features)
                                     ELSE m.keyframes,
                       currentKeyframeId |-> IF create THEN m.currentKeyframeId + 1
                                             ELSE m.currentKeyframeId],
                  pointCloudBuilder |-> cloud]
        ELSE st

\* processFrame without its test of isCapturing
processFrame_NoGuard(st, frame, tracked) ==
    LET a == st.app
        m == st.mapper
        after ==
            IF a.lastFeatures # Null /\ a.lastDescriptors # Null
               /\ Len(frame.features) > 0
            THEN processMatches(st, frame, tracked)
            ELSE [st EXCEPT
                     !.mapper.keyframes =
                         addKeyframe(m.keyframes, m.currentKeyframeId,
                                     initialPose, frame.features),
                     !.mapper.currentKeyframeId = m.currentKeyframeId + 1,
                     !.app.lastPose = Some(initialPose),
                     !.app.lastPoseKeyframe = Len(m.keyframes) + 1]
    IN  [after EXCEPT !.app.lastFeatures = Some(frame.features),
                      !.app.lastDescriptors = Some(frame.descriptors)]

\* processFrame(imageData); tracked is what the tracker and the pose estimator return
processFrame(st, frame, tracked) ==
    IF ~st.app.isCapturing THEN st
    ELSE LET a == st.app
             m == st.mapper
             after ==
                 IF a.lastFeatures # Null /\ a.lastDescriptors # Null
                    /\ Len(frame.features) > 0
                 THEN processMatches(st, frame, tracked)
                 ELSE [st EXCEPT
                          !.mapper.keyframes =
                              addKeyframe(m.keyframes, m.currentKeyframeId,
                                          initialPose, frame.features),
                          !.mapper.currentKeyframeId = m.currentKeyframeId + 1,
                          !.app.lastPose = Some(initialPose),
                          !.app.lastPoseKeyframe = Len(m.keyframes) + 1]
         IN  [after EXCEPT !.app.lastFeatures = Some(frame.features),
                           !.app.lastDescriptors = Some(frame.descriptors)]

\* captureFrame's frameCallbacks.forEach: every callback is processFrame with the
\* same image; the results are the states the callbacks may leave
RECURSIVE deliver(_, _, _)
deliver(st, callbacks, frame) ==
    IF callbacks = 0 THEN {st}
    ELSE UNION {deliver(processFrame(st, frame, tracked), callbacks - 1, frame)
                   : tracked \in trackChoices(st.app, frame)}

\* startCapture after the camera is started: this.isCapturing = true
startCaptureDone(st) == [st EXCEPT !.app.isCapturing = TRUE]

\* stopCapture: this.isCapturing = false (the camera is stopped by the action)
stopCapture(st) == [st EXCEPT !.app.isCapturing = FALSE]

\* reset that leaves the last frame and its descriptors in place
reset_KeepsLastFrame(st) ==
    [app |-> [st.app EXCEPT !.isCapturing = FALSE, !.lastPose = Null,
                            !.lastPoseKeyframe = 0],
     mapper |-> Mapper_clear(st.mapper),
     pointCloudBuilder |-> PointCloudBuilder_clear(st.pointCloudBuilder)]

\* reset: stopCapture, mapper.clear, pointCloudBuilder.clear, and the last frame,
\* its descriptors and the last pose forgotten
reset(st) ==
    [app |-> [isCapturing |-> FALSE, lastFeatures |-> Null, lastDescriptors |-> Null,
              lastPose |-> Null, lastPoseKeyframe |-> 0],
     mapper |-> Mapper_clear(st.mapper),
     pointCloudBuilder |-> PointCloudBuilder_clear(st.pointCloudBuilder)]

\* the stages of processFrame in which an error may be raised
Stages == {"detect", "match", "filterMatches", "estimatePose", "triangulatePoints",
           "Mapper.addPoints", "PointCloudBuilder.addPoints"}

\* the frame takes the tracking branch of processFrame
tracksFrame(st, frame) ==
    st.app.lastFeatures # Null /\ st.app.lastDescriptors # Null
    /\ Len(frame.features) > 0

\* the points processFrame triangulates from a frame (none when it does not get
\* that far)
newPointsOf(st, frame, tracked) ==
    IF /\ tracksFrame(st, frame)
       /\ Len(tracked.filteredMatches) >= minMatches
       /\ tracked.pose # Null
       /\ st.app.lastPose # Null
    THEN triangulatePoints(st.app.lastFeatures[1], frame.features,
                           st.app.lastPose[1], tracked.pose[1], tracked.filteredMatches)
    ELSE <<>>

\* processFrame gets to the stage with this frame, of which it triangulates
\* newPoints
stageReached(st, frame, tracked, newPoints, stage) ==
    LET posed == /\ tracksFrame(st, frame)
                 /\ Len(tracked.filteredMatches) >= minMatches
                 /\ tracked.pose # Null
    IN  /\ st.app.isCapturing
        /\ CASE stage = "detect" -> TRUE
             [] stage \in {"match", "filterMatches"} -> tracksFrame(st, frame)
             [] stage = "estimatePose" ->
                    tracksFrame(st, frame) /\ Len(tracked.filteredMatches) >= minMatches
             [] stage = "triangulatePoints" -> posed /\ st.app.lastPose # Null
             [] stage \in {"Mapper.addPoints", "PointCloudBuilder.addPoints"} ->
                    Len(newPoints) > 0

\* processFrame when the stage raises an error as it is entered: what the
\* statements before it did stays, and the catch block does nothing but log
processFrameThrowing(st, newPoints, stage) ==
    IF stage = "PointCloudBuilder.addPoints"
    THEN [st EXCEPT !.mapper.points3D = Mapper_addPoints(@, newPoints)]
    ELSE st

\* what a frame may leave when a stage of its processing raises an error
throwResults(st, frame, tracked) ==
    LET newPoints == newPointsOf(st, frame, tracked)
    IN  {processFrameThrowing(st, newPoints, stage) :
            stage \in {g \in Stages : stageReached(st, frame, tracked, newPoints, g)}}

(***************************************************************************)
(* The application: SLAMApp driven by CameraCapture                         *)
(* (src/src/main.js, src/src/camera/cameraCapture.js)                      *)
(***************************************************************************)
NoCall == [op |-> "none"]

Init ==
    /\ app = [isCapturing |-> FALSE, lastFeatures |-> Null, lastDescriptors |-> Null,
              lastPose |-> Null, lastPoseKeyframe |-> 0]
    /\ mapper = [points3D |-> <<>>, keyframes |-> <<>>, currentKeyframeId |-> 0]
    /\ pointCloudBuilder = emptyCloud
    /\ plainCloud = emptyPlainCloud
    /\ cameraCapture = [stream |-> FALSE, isCapturing |-> FALSE, frameCallbacks |-> 0,
                        animationFrameId |-> 0]
    /\ rafPending = {}
    /\ startsPending = 0
    /\ optimizeCalls = 0
    /\ call = NoCall
    /\ offered = 0

\* the objects processFrame works on
slam == [app |-> app, mapper |-> mapper, pointCloudBuilder |-> pointCloudBuilder]

withinBounds(st) ==
    /\ Len(st.mapper.keyframes) <= MaxKeyframes
    /\ Len(st.mapper.points3D) <= MaxPoints
    /\ getPointCount(st.pointCloudBuilder) <= MaxPoints

\* the id requestAnimationFrame returns: one that is not pending
freshId(pending) == CHOOSE i \in 1..(MaxLoops + 1) :
                        i \notin pending /\ \A j \in 1..(i - 1) : j \in pending

\* the end of captureFrame: the next animation frame is requested
captureFrameBody(cam, pending, st) ==
    LET id == freshId(pending)
    IN  [cam |-> [cam EXCEPT !.animationFrameId = id],
         pending |-> pending \cup {id},
         st |-> st]

\* what one captureFrame may leave of the SLAM objects: no frame is due yet, or
\* some image is captured and delivered
captureResults(st, callbacks) ==
    {st} \cup UNION {deliver(st, callbacks, f) : f \in Frames}

\* startCapture up to `await this.cameraCapture.initialize(...)`
StartCapture ==
    /\ startsPending < MaxPendingStarts
    /\ startsPending' = startsPending + 1
    /\ UNCHANGED <<app, mapper, pointCloudBuilder, plainCloud, cameraCapture,
                   rafPending, optimizeCalls, call, offered>>

\* initialize throws (no camera, permission denied): startCapture's catch
InitializeRejected ==
    /\ startsPending > 0
    /\ startsPending' = startsPending - 1
    /\ UNCHANGED <<app, mapper, pointCloudBuilder, plainCloud, cameraCapture,
                   rafPending, optimizeCalls, call, offered>>

\* initialize resolves: cameraCapture.startCapture(callback), which runs
\* captureFrame once, and then this.isCapturing = true
StartCaptureResumed ==
    /\ startsPending > 0
    /\ Cardinality(rafPending) < MaxLoops
    /\ LET cam1 == [cameraCapture EXCEPT !.stream = TRUE, !.isCapturing = TRUE,
                                         !.frameCallbacks = @ + 1]
       IN  \E st2 \in captureResults(slam, cam1.frameCallbacks) :
             LET r == captureFrameBody(cam1, rafPending, startCaptureDone(st2))
             IN  /\ withinBounds(r.st)
                 /\ cameraCapture' = r.cam
                 /\ rafPending' = r.pending
                 /\ app' = r.st.app
                 /\ mapper' = r.st.mapper
                 /\ pointCloudBuilder' = r.st.pointCloudBuilder
    /\ startsPending' = startsPending - 1
    /\ UNCHANGED <<plainCloud, optimizeCalls, call, offered>>

\* the browser runs a pending animation-frame callback: captureFrame
CaptureFrame ==
    \E id \in rafPending :
        IF ~cameraCapture.isCapturing
        THEN /\ rafPending' = rafPending \ {id}
             /\ UNCHANGED <<app, mapper, pointCloudBuilder, plainCloud, cameraCapture,
                            startsPending, optimizeCalls, call,
                            offered>>
        ELSE \E st2 \in captureResults(slam, cameraCapture.frameCallbacks) :
               LET r == captureFrameBody(cameraCapture, rafPending \ {id}, st2)
               IN  /\ withinBounds(r.st)
                   /\ cameraCapture' = r.cam
                   /\ rafPending' = r.pending
                   /\ app' = r.st.app
                   /\ mapper' = r.st.mapper
                   /\ pointCloudBuilder' = r.st.pointCloudBuilder
                   /\ UNCHANGED <<plainCloud, startsPending, optimizeCalls, call, offered>>

\* CameraCapture.stopCapture
stoppedCamera == [cameraCapture EXCEPT !.isCapturing = FALSE,
                                       !.animationFrameId = 0,
                                       !.frameCallbacks = 0]

\* cancelAnimationFrame(animationFrameId) when an id is set
stoppedPending == IF cameraCapture.animationFrameId # 0
                  THEN rafPending \ {cameraCapture.animationFrameId}
                  ELSE rafPending

\* SLAMApp.stopCapture
StopCapture ==
    /\ cameraCapture' = stoppedCamera
    /\ rafPending' = stoppedPending
    /\ app' = stopCapture(slam).app
    /\ UNCHANGED <<mapper, pointCloudBuilder, plainCloud, startsPending,
                   optimizeCalls, call, offered>>

\* SLAMApp.reset
Reset ==
    /\ cameraCapture' = stoppedCamera
    /\ rafPending' = stoppedPending
    /\ mapper' = reset(slam).mapper
    /\ pointCloudBuilder' = reset(slam).pointCloudBuilder
    /\ app' = reset(slam).app
    /\ UNCHANGED <<plainCloud, startsPending, optimizeCalls, call, offered>>

Next ==
    \/ StartCapture
    \/ InitializeRejected
    \/ StartCaptureResumed
    \/ CaptureFrame
    \/ StopCapture
    \/ Reset

Spec == Init /\ [][Next]_vars

(***************************************************************************)
(* The application with a host that also runs the map maintenance:         *)
(* BundleAdjustment.optimize on the Mapper's keyframes and points, and the *)
(* voxel merges of the Mapper and of the accumulator.                      *)
(***************************************************************************)
\* BundleAdjustment.optimize(mapper.keyframes, mapper.points3D): the pose object of
\* a keyframe is the object lastPose refers to when that frame made the keyframe
Optimize ==
    /\ optimizeCalls < MaxOptimize
    /\ optimizeCalls' = optimizeCalls + 1
    /\ LET r == optimize(mapper.keyframes, mapper.points3D)
       IN  /\ mapper' = [mapper EXCEPT !.keyframes = r.keyframes,
                                       !.points3D = r.points3D]
           /\ app' = IF app.lastPoseKeyframe > 0
                     THEN [app EXCEPT !.lastPose =
                              Some(r.keyframes[app.lastPoseKeyframe].pose)]
                     ELSE app
    /\ UNCHANGED <<pointCloudBuilder, plainCloud, cameraCapture, rafPending,
                   startsPending, call, offered>>

\* Mapper.mergeNearbyPoints()
MapperMerge ==
    /\ mapper' = [mapper EXCEPT !.points3D = Mapper_mergeNearbyPoints(mapper.points3D)]
    /\ UNCHANGED <<app, pointCloudBuilder, plainCloud, cameraCapture, rafPending,
                   startsPending, optimizeCalls, call, offered>>

\* PointCloudBuilder.mergeNearbyPoints()
CloudMerge ==
    /\ pointCloudBuilder' = PointCloudBuilder_mergeNearbyPoints(pointCloudBuilder)
    /\ UNCHANGED <<app, mapper, plainCloud, cameraCapture, rafPending,
                   startsPending, optimizeCalls, call, offered>>

NextHost ==
    \/ Next
    \/ Optimize
    \/ MapperMerge
    \/ CloudMerge

SpecHost == Init /\ [][NextHost]_vars

(***************************************************************************)
(* The Mapper called directly: addKeyframe, clear and triangulatePoints    *)
(* with arguments of the caller's choice.  `call` is the last call, with   *)
(* its arguments and what it returned.                                     *)
(***************************************************************************)
ApiPoses == {initialPose, getPoseHypotheses[1]}

\* a corner, and where the next frame may show it: not moved, moved by 1, 2 or 6
\* pixels, or by 2400 or 2500 pixels
ApiFeature == [x |-> 100, y |-> 100]
ApiMoved == {[x |-> 100 + d, y |-> 100] : d \in {0, 1, 2, 6, 2400, 2500}}

MapperAddKeyframe ==
    /\ Len(mapper.keyframes) < MaxKeyframes
    /\ \E pose \in ApiPoses :
         /\ mapper' = [mapper EXCEPT
                          !.keyframes = addKeyframe(@, mapper.currentKeyframeId, pose, <<>>),
                          !.currentKeyframeId = @ + 1]
         /\ call' = [op |-> "addKeyframe", id |-> mapper.currentKeyframeId]
    /\ UNCHANGED <<app, pointCloudBuilder, plainCloud, cameraCapture, rafPending,
                   startsPending, optimizeCalls, offered>>

MapperClear ==
    /\ mapper' = Mapper_clear(mapper)
    /\ call' = [op |-> "clear", keyframes |-> Len(mapper.keyframes)]
    /\ UNCHANGED <<app, pointCloudBuilder, plainCloud, cameraCapture, rafPending,
                   startsPending, optimizeCalls, offered>>

\* triangulatePoints(features1, features2, pose1, pose2, matches) for one corner of
\* the first frame matched to two corners of the second
MapperTriangulate ==
    /\ \E g1 \in ApiMoved, g2 \in ApiMoved, pose1 \in ApiPoses :
         LET features1 == <<ApiFeature>>
             pose2 == getPoseHypotheses[1]
             features2 == <<g1, g2>>
             matches == <<[queryIdx |-> 1, trainIdx |-> 1, distance |-> 0],
                          [queryIdx |-> 1, trainIdx |-> 2, distance |-> 0]>>
         IN  call' = [op |-> "triangulatePoints",
                      features1 |-> features1, features2 |-> features2,
                      pose1 |-> pose1, matches |-> matches,
                      points |-> triangulatePoints(features1, features2,
                                                   pose1, pose2, matches)]
    /\ UNCHANGED <<app, mapper, pointCloudBuilder, plainCloud, cameraCapture,
                   rafPending, startsPending, optimizeCalls, offered>>

NextMapper ==
    \/ MapperAddKeyframe
    \/ MapperClear
    \/ MapperTriangulate

SpecMapper == Init /\ [][NextMapper]_vars

(***************************************************************************)
(* The point stores called directly.  A batch of points is offered to the  *)
(* Mapper and to the accumulator, as processFrame offers its new points    *)
(* (main.js 163-166), here also to the plain accumulator; each store is    *)
(* merged and cleared on its own.                                          *)
(***************************************************************************)
apiPoint(x, y, z, confidence, depth) ==
    [position |-> Vector3(x, y, z), color |-> white, confidence |-> confidence,
     depth |-> depth, uncertainty |-> Undefined]

\* the points a caller offers: three in one voxel, one far, one at negative
\* coordinates; confidences 0, 0.1, 0.25, 0.3 and 0.5
ApiPoints ==
    { apiPoint(12, 4, 503, 0, 503),
      apiPoint(2000, 0, 1000, 100, Undefined),
      apiPoint(17, 8, 508, 250, 508),
      apiPoint(19, 1, 501, 300, Undefined),
      apiPoint(0 - 15, 0 - 3, 2000, 500, 2000) }

ApiBatches == {<<p>> : p \in ApiPoints} \cup {<<p, q>> : p \in ApiPoints, q \in ApiPoints}

OfferPoints ==
    /\ \E points \in ApiBatches :
         /\ mapper' = [mapper EXCEPT !.points3D = Mapper_addPoints(@, points)]
         /\ pointCloudBuilder' = PointCloudBuilder_addPoints(pointCloudBuilder, points)
         /\ plainCloud' = Plain_addPoints(plainCloud, points)
         /\ call' = [op |-> "addPoints", points |-> points]
    /\ Len(mapper'.points3D) <= MaxStored
    /\ getPointCount(pointCloudBuilder') <= MaxStored
    /\ Len(plainCloud'.points) \div 3 <= MaxStored
    /\ UNCHANGED <<app, cameraCapture, rafPending, startsPending, optimizeCalls, offered>>

\* Mapper.clear(), PointCloudBuilder.clear() of both accumulators
ClearStores ==
    /\ mapper' = Mapper_clear(mapper)
    /\ pointCloudBuilder' = PointCloudBuilder_clear(pointCloudBuilder)
    /\ plainCloud' = Plain_clear(plainCloud)
    /\ call' = [op |-> "clear", keyframes |-> 0]
    /\ UNCHANGED <<app, cameraCapture, rafPending, startsPending, optimizeCalls, offered>>

\* Mapper.mergeNearbyPoints() called directly
MergeMapperStore ==
    /\ mapper' = [mapper EXCEPT !.points3D = Mapper_mergeNearbyPoints(mapper.points3D)]
    /\ call' = [op |-> "Mapper.mergeNearbyPoints"]
    /\ UNCHANGED <<app, pointCloudBuilder, plainCloud, cameraCapture, rafPending,
                   startsPending, optimizeCalls, offered>>

\* PointCloudBuilder.mergeNearbyPoints() called directly
MergeCloudStore ==
    /\ pointCloudBuilder' = PointCloudBuilder_mergeNearbyPoints(pointCloudBuilder)
    /\ call' = [op |-> "PointCloudBuilder.mergeNearbyPoints"]
    /\ UNCHANGED <<app, mapper, plainCloud, cameraCapture, rafPending,
                   startsPending, optimizeCalls, offered>>

NextStores ==
    \/ OfferPoints
    \/ MergeMapperStore
    \/ MergeCloudStore
    \/ ClearStores

SpecStores == Init /\ [][NextStores]_vars

(***************************************************************************)
(* The accumulators called directly with larger clouds: batches of points  *)
(* are offered to both of them, each is filtered for outliers on its own,  *)
(* the accumulator is merged, and both are cleared.                        *)
(***************************************************************************)
\* points offered to the accumulators between two clears
MaxOffered == 12

\* a point on the optical axis at depth z, without a depth of its own
linePoint(z) == apiPoint(0, 0, z, 500, Undefined)

\* the batches a caller offers: two halves of a dense run of points 0.005 apart,
\* a run that thins out, four points with no neighbour within 0.05, and five more
\* beside these
CloudBatches ==
    { <<linePoint(100), linePoint(105), linePoint(110), linePoint(115)>>,
      <<linePoint(120), linePoint(125), linePoint(130), linePoint(135)>>,
      <<linePoint(153), linePoint(172), linePoint(204), linePoint(243)>>,
      <<linePoint(300), linePoint(360), linePoint(420), linePoint(480)>>,
      <<apiPoint(60, 0, 300, 500, Undefined), apiPoint(60, 0, 360, 500, Undefined),
        apiPoint(60, 0, 420, 500, Undefined), apiPoint(60, 0, 480, 500, Undefined),
        apiPoint(120, 0, 300, 500, Undefined)>> }

CloudAddPoints ==
    /\ \E points \in CloudBatches :
         /\ offered + Len(points) <= MaxOffered
         /\ offered' = offered + Len(points)
         /\ pointCloudBuilder' = PointCloudBuilder_addPoints(pointCloudBuilder, points)
         /\ plainCloud' = Plain_addPoints(plainCloud, points)
         /\ call' = [op |-> "addPoints", points |-> points]
    /\ UNCHANGED <<app, mapper, cameraCapture, rafPending, startsPending, optimizeCalls>>

\* PointCloudBuilder.filterOutliers() of the accumulator
CloudFilterOutliers ==
    /\ pointCloudBuilder' = filterOutliers(pointCloudBuilder)
    /\ call' = [op |-> "PointCloudBuilder.filterOutliers"]
    /\ UNCHANGED <<app, mapper, plainCloud, cameraCapture, rafPending, startsPending,
                   optimizeCalls, offered>>

\* PointCloudBuilder.filterOutliers() of the plain accumulator
PlainFilterOutliers ==
    /\ plainCloud' = Plain_filterOutliers(plainCloud)
    /\ call' = [op |-> "Plain.filterOutliers"]
    /\ UNCHANGED <<app, mapper, pointCloudBuilder, cameraCapture, rafPending,
                   startsPending, optimizeCalls, offered>>

\* PointCloudBuilder.mergeNearbyPoints() of the accumulator
CloudMergeNearby ==
    /\ pointCloudBuilder' = PointCloudBuilder_mergeNearbyPoints(pointCloudBuilder)
    /\ call' = [op |-> "PointCloudBuilder.mergeNearbyPoints"]
    /\ UNCHANGED <<app, mapper, plainCloud, cameraCapture, rafPending, startsPending,
                   optimizeCalls, offered>>

\* PointCloudBuilder.clear() of both accumulators
CloudClear ==
    /\ pointCloudBuilder' = PointCloudBuilder_clear(pointCloudBuilder)
    /\ plainCloud' = Plain_clear(plainCloud)
    /\ offered' = 0
    /\ call' = [op |-> "PointCloudBuilder.clear"]
    /\ UNCHANGED <<app, mapper, cameraCapture, rafPending, startsPending, optimizeCalls>>

NextCloud ==
    \/ CloudAddPoints
    \/ CloudFilterOutliers
    \/ PlainFilterOutliers
    \/ CloudMergeNearby
    \/ CloudClear

SpecCloud == Init /\ [][NextCloud]_vars

(***************************************************************************)
(* The FeatureDetector called directly: detect on an image whose corners   *)
(* at the three scales are given, by a detector of some maxFeatures.       *)
(***************************************************************************)
\* corners an image may have
MaxCorners == 3

corner(x, y, score, scale) == [x |-> x, y |-> y, score |-> score, scale |-> scale]

\* the corners: one found at two scales, one five pixels from it, two that score
\* the same, one apart from the others; scales in tenths
DetectorCorners ==
    { corner(10, 10, 50, 8), corner(10, 10, 120, 12), corner(15, 10, 90, 10),
      corner(40, 10, 90, 10), corner(40, 40, 70, 10) }

RECURSIVE cornerLists(_)
cornerLists(n) ==
    IF n = 0 THEN {<<>>}
    ELSE cornerLists(n - 1)
         \cup {Append(l, c) : l \in {m \in cornerLists(n - 1) : Len(m) = n - 1},
                              c \in DetectorCorners}

\* new FeatureDetector(maxFeatures)
DetectorLimits == 1..MaxCorners

\* the objects as constructed, with nothing called yet
Constructed ==
    /\ app = [isCapturing |-> FALSE, lastFeatures |-> Null, lastDescriptors |-> Null,
              lastPose |-> Null, lastPoseKeyframe |-> 0]
    /\ mapper = [points3D |-> <<>>, keyframes |-> <<>>, currentKeyframeId |-> 0]
    /\ pointCloudBuilder = emptyCloud
    /\ plainCloud = emptyPlainCloud
    /\ cameraCapture = [stream |-> FALSE, isCapturing |-> FALSE, frameCallbacks |-> 0,
                        animationFrameId |-> 0]
    /\ rafPending = {}
    /\ startsPending = 0
    /\ optimizeCalls = 0
    /\ offered = 0

\* images of three pixels by three: a ramp, a flat one, a chequerboard
DescriptorImages ==
    { [width |-> 3, height |-> 3, gray |-> <<10, 20, 30, 40, 50, 60, 70, 80, 90>>],
      [width |-> 3, height |-> 3, gray |-> <<50, 50, 50, 50, 50, 50, 50, 50, 50>>],
      [width |-> 3, height |-> 3, gray |-> <<0, 255, 0, 255, 0, 255, 0, 255, 0>>] }

\* keypoints: the middle of the image, and its corner
DescriptorKeypoints == {corner(1, 1, 50, 10), corner(0, 0, 50, 10)}

\* offsets of a test point from the keypoint that the random angle and radius may
\* give (of those within the patch of 31 pixels)
PatchOffsets == {<<0, 0>>, <<1, 0>>, <<0, -1>>, <<-2, 0>>}

\* what the Math.random() of one call of computeDescriptor may give
DescriptorDraws == [1..descriptorSize -> PatchOffsets \X PatchOffsets]

\* a detector and either the corners of the image it is about to be given, or an
\* image and a keypoint of it
InitDetector ==
    /\ Constructed
    /\ call \in {[op |-> "image", corners |-> corners, maxFeatures |-> maxFeatures] :
                    corners \in cornerLists(MaxCorners), maxFeatures \in DetectorLimits}
                \cup {[op |-> "keypoint", imageData |-> imageData, feature |-> f] :
                        imageData \in DescriptorImages, f \in DescriptorKeypoints}

Detect ==
    /\ call.op = "image"
    /\ call' = [op |-> "detect", corners |-> call.corners,
                maxFeatures |-> call.maxFeatures,
                features |-> detect(call.corners, call.maxFeatures)]
    /\ UNCHANGED <<app, mapper, pointCloudBuilder, plainCloud, cameraCapture,
                   rafPending, startsPending, optimizeCalls, offered>>

\* computeDescriptor(imageData, feature), for the first time or once more; the
\* descriptor of the call before is kept in `previous`
ComputeDescriptor ==
    /\ call.op = "keypoint" \/ (call.op = "computeDescriptor" /\ call.previous = Null)
    /\ \E draws \in DescriptorDraws :
         call' = [op |-> "computeDescriptor", imageData |-> call.imageData,
                  feature |-> call.feature,
                  descriptor |-> computeDescriptor(call.imageData, call.feature, draws),
                  previous |-> IF call.op = "keypoint" THEN Null
                               ELSE Some(call.descriptor)]
    /\ UNCHANGED <<app, mapper, pointCloudBuilder, plainCloud, cameraCapture,
                   rafPending, startsPending, optimizeCalls, offered>>

NextDetector == Detect \/ ComputeDescriptor

SpecDetector == InitDetector /\ [][NextDetector]_vars

(***************************************************************************)
(* The FeatureTracker called directly.                                     *)
(***************************************************************************)
\* candidates a query feature may have in the second frame
MaxCandidates == 3
\* elements a descriptor handed to hammingDistance may have
MaxDescriptorLength == 3
\* matches handed to filterMatches
MaxMatches == 9

feature(x, y) == [x |-> x, y |-> y]

\* two query features at one place, with descriptors one apart
queryFeatures == <<feature(100, 100), feature(100, 100)>>
queryDescriptors == <<(<<0>>), (<<1>>)>>

\* a candidate is at the query's place, at exactly maxDistance from it, or
\* beyond; its descriptor is at a distance of 0, 1, 3, 4, 5 or 6 from a query's,
\* or of another length
candidatePlaces == {feature(100, 100), feature(130, 140), feature(100, 151)}
candidateDescriptors == {(<<0>>), (<<1>>), (<<4>>), (<<5>>), (<<6>>), (<<1, 1>>)}

RECURSIVE candidateLists(_)
candidateLists(n) ==
    IF n = 0 THEN {<<>>}
    ELSE candidateLists(n - 1)
         \cup {Append(l, [f |-> f, d |-> d]) :
                   l \in {m \in candidateLists(n - 1) : Len(m) = n - 1},
                   f \in candidatePlaces, d \in candidateDescriptors}

matchInputs ==
    {[op |-> "frames", features1 |-> queryFeatures, descriptors1 |-> queryDescriptors,
      features2 |-> [j \in 1..Len(l) |-> l[j].f],
      descriptors2 |-> [j \in 1..Len(l) |-> l[j].d]] : l \in candidateLists(MaxCandidates)}

\* the values of a descriptor's elements: the two of a binary descriptor, and the
\* largest of a Uint8Array
descriptorValues == {0, 1, 255}

RECURSIVE descriptorsUpTo(_)
descriptorsUpTo(n) ==
    IF n = 0 THEN {<<>>}
    ELSE descriptorsUpTo(n - 1)
         \cup {Append(d, v) : d \in {e \in descriptorsUpTo(n - 1) : Len(e) = n - 1},
                              v \in descriptorValues}

hammingInputs ==
    {[op |-> "descriptors", desc1 |-> desc1, desc2 |-> desc2] :
        desc1 \in descriptorsUpTo(MaxDescriptorLength),
        desc2 \in descriptorsUpTo(MaxDescriptorLength)}

\* n features in a row; in the second frame all moved by 10 pixels but feature
\* `odd` (if any), which moved by 40
rowFeatures1(n) == [i \in 1..n |-> feature(20 * i, 100)]
rowFeatures2(n, odd) == [i \in 1..n |-> feature(20 * i + (IF i = odd THEN 40 ELSE 10), 100)]

\* the matches of the row, first to last or last to first
rowMatches(n, reversed) ==
    [k \in 1..n |-> LET i == IF reversed THEN n + 1 - k ELSE k
                    IN  [queryIdx |-> i, trainIdx |-> i, distance |-> 0]]

\* what randomSample(matches, 4) may return in the iterations: the first
\* matches, or the last ones
rowSamples(n) ==
    LET k == IF n < 4 THEN n ELSE 4
    IN  {<<>>, <<[i \in 1..k |-> i]>>,
         <<[i \in 1..k |-> n + 1 - i], [i \in 1..k |-> i]>>}

filterInputs ==
    UNION {{[op |-> "matches", matches |-> rowMatches(n, reversed),
             features1 |-> rowFeatures1(n), features2 |-> rowFeatures2(n, odd),
             samples |-> samples] :
               odd \in 0..n, reversed \in BOOLEAN, samples \in rowSamples(n)} :
           n \in 0..MaxMatches}

InitTracker ==
    /\ Constructed
    /\ call \in matchInputs \cup hammingInputs \cup filterInputs

Match ==
    /\ call.op = "frames"
    /\ call' = [op |-> "match", features1 |-> call.features1,
                descriptors1 |-> call.descriptors1, features2 |-> call.features2,
                descriptors2 |-> call.descriptors2,
                matches |-> match(call.features1, call.descriptors1,
                                  call.features2, call.descriptors2)]
    /\ UNCHANGED <<app, mapper, pointCloudBuilder, plainCloud, cameraCapture,
                   rafPending, startsPending, optimizeCalls, offered>>

HammingDistance ==
    /\ call.op = "descriptors"
    /\ call' = [op |-> "hammingDistance", desc1 |-> call.desc1, desc2 |-> call.desc2,
                distance |-> hammingDistance(call.desc1, call.desc2),
                swapped |-> hammingDistance(call.desc2, call.desc1)]
    /\ UNCHANGED <<app, mapper, pointCloudBuilder, plainCloud, cameraCapture,
                   rafPending, startsPending, optimizeCalls, offered>>

FilterMatches ==
    /\ call.op = "matches"
    /\ call' = [op |-> "filterMatches", matches |-> call.matches,
                features1 |-> call.features1, features2 |-> call.features2,
                samples |-> call.samples,
                filtered |-> filterMatches(call.matches, call.features1,
                                           call.features2, call.samples)]
    /\ UNCHANGED <<app, mapper, pointCloudBuilder, plainCloud, cameraCapture,
                   rafPending, startsPending, optimizeCalls, offered>>

NextTracker == Match \/ HammingDistance \/ FilterMatches

SpecTracker == InitTracker /\ [][NextTracker]_vars

(***************************************************************************)
(* The PoseEstimator called directly on the correspondences of two views.  *)
(***************************************************************************)
\* correspondences handed to estimatePose
MaxCorrespondences == 9

\* where the features of the first view are: no three of the first eight in line
viewFeature(i) == feature(40 * i + 10 * ((i * i) % 7), 60 + 50 * ((3 * i) % 5))

\* how the features moved between the views, as pixels (dx, dy) per feature: not
\* at all; by one pixel; by one pixel each way; as a camera moved sideways moves
\* features at different depths; all by ten pixels; by one pixel but for one
\* feature that went elsewhere
Motions ==
    { [i \in 1..MaxCorrespondences |-> <<0, 0>>],
      [i \in 1..MaxCorrespondences |-> <<1, 0>>],
      [i \in 1..MaxCorrespondences |-> <<1, 1>>],
      [i \in 1..MaxCorrespondences |-> <<4 + 2 * i + (i * i) \div 4, 0>>],
      [i \in 1..MaxCorrespondences |-> <<10, 0>>],
      [i \in 1..MaxCorrespondences |-> IF i = 3 THEN <<0, 40>> ELSE <<1, 0>>] }

poseInputs ==
    {[op |-> "correspondences",
      features1 |-> [i \in 1..n |-> viewFeature(i)],
      features2 |-> [i \in 1..n |-> feature(viewFeature(i).x + motion[i][1],
                                            viewFeature(i).y + motion[i][2])],
      matches |-> rowMatches(n, reversed)] :
        n \in 0..MaxCorrespondences, motion \in Motions, reversed \in BOOLEAN}

InitPose ==
    /\ Constructed
    /\ call \in poseInputs

EstimatePose ==
    /\ call.op = "correspondences"
    /\ call' = [op |-> "estimatePose", features1 |-> call.features1,
                features2 |-> call.features2, matches |-> call.matches,
                pose |-> estimatePose(call.features1, call.features2, call.matches),
                plainPose |-> Plain_estimatePose(call.features1, call.features2,
                                                 call.matches)]
    /\ UNCHANGED <<app, mapper, pointCloudBuilder, plainCloud, cameraCapture,
                   rafPending, startsPending, optimizeCalls, offered>>

NextPose == EstimatePose

SpecPose == InitPose /\ [][NextPose]_vars

(***************************************************************************)
(* The application with frames in whose processing a stage raises an error *)
(***************************************************************************)
\* frames of one run in whose processing an error is raised
MaxFrameErrors == 1

\* the errors raised so far in the processing of frames
frameErrors == IF call.op = "frameError" THEN call.errors ELSE 0

\* captureFrame whose callback (processFrame) has a stage raise an error and is
\* left with the objects as in `caught`: processFrame catches the error, and
\* captureFrame requests the next animation frame
CaptureFrameThrowing(id, caught) ==
    /\ frameErrors < MaxFrameErrors
    /\ call' = [op |-> "frameError", errors |-> frameErrors + 1]
    /\ id \in rafPending
    /\ cameraCapture.isCapturing
    /\ cameraCapture.frameCallbacks = 1
    /\ LET r == captureFrameBody(cameraCapture, rafPending \ {id}, caught)
       IN  /\ withinBounds(r.st)
           /\ cameraCapture' = r.cam
           /\ rafPending' = r.pending
           /\ app' = r.st.app
           /\ mapper' = r.st.mapper
           /\ pointCloudBuilder' = r.st.pointCloudBuilder
    /\ UNCHANGED <<plainCloud, startsPending, optimizeCalls, offered>>

CaptureFrameThrows ==
    \E id \in rafPending, frame \in Frames :
        \E tracked \in trackChoices(app, frame) :
            \E caught \in throwResults(slam, frame, tracked) :
                CaptureFrameThrowing(id, caught)

\* the application after startCapture: capturing, with its callback registered
\* and the first animation frame requested
InitFaults ==
    /\ app = [isCapturing |-> TRUE, lastFeatures |-> Null, lastDescriptors |-> Null,
              lastPose |-> Null, lastPoseKeyframe |-> 0]
    /\ mapper = [points3D |-> <<>>, keyframes |-> <<>>, currentKeyframeId |-> 0]
    /\ pointCloudBuilder = emptyCloud
    /\ plainCloud = emptyPlainCloud
    /\ cameraCapture = [stream |-> TRUE, isCapturing |-> TRUE, frameCallbacks |-> 1,
                        animationFrameId |-> 1]
    /\ rafPending = {1}
    /\ startsPending = 0
    /\ optimizeCalls = 0
    /\ call = NoCall
    /\ offered = 0

\* a run that goes on capturing
NextFaults ==
    \/ CaptureFrame
    \/ CaptureFrameThrows

SpecFaults == InitFaults /\ [][NextFaults]_vars

(***************************************************************************)
(* The capture control of the application: startCapture, stopCapture and   *)
(* reset called in any order, also while an earlier startCapture awaits    *)
(* the camera; `call` holds the last of these calls.  The camera shows one *)
(* scene.                                                                  *)
(***************************************************************************)
\* startCapture calls awaiting camera initialisation at one time
MaxCaptureStarts == 2
\* capture loops at one time
MaxCaptureLoops == MaxLoops + 1

\* startCapture up to `await this.cameraCapture.initialize(...)`
AppStartCapture ==
    /\ startsPending < MaxCaptureStarts
    /\ startsPending' = startsPending + 1
    /\ call' = [op |-> "startCapture"]
    /\ UNCHANGED <<app, mapper, pointCloudBuilder, plainCloud, cameraCapture,
                   rafPending, optimizeCalls, offered>>

\* what one captureFrame may leave: no frame is due yet, or the image of the scene
\* is captured and delivered to every callback
sceneResults(st, callbacks) == {st} \cup deliver(st, callbacks, FrameBase)

\* initialize resolves: cameraCapture.startCapture(callback), which pushes the
\* callback and runs captureFrame, and then this.isCapturing = true
AppStartCaptureResumed ==
    /\ startsPending > 0
    /\ Cardinality(rafPending) < MaxCaptureLoops
    /\ LET cam1 == [cameraCapture EXCEPT !.stream = TRUE, !.isCapturing = TRUE,
                                         !.frameCallbacks = @ + 1]
       IN  \E st2 \in sceneResults(slam, cam1.frameCallbacks) :
             LET r == captureFrameBody(cam1, rafPending, startCaptureDone(st2))
             IN  /\ withinBounds(r.st)
                 /\ cameraCapture' = r.cam
                 /\ rafPending' = r.pending
                 /\ app' = r.st.app
                 /\ mapper' = r.st.mapper
                 /\ pointCloudBuilder' = r.st.pointCloudBuilder
    /\ startsPending' = startsPending - 1
    /\ UNCHANGED <<plainCloud, optimizeCalls, call, offered>>

\* the browser runs a pending animation-frame callback: captureFrame
AppCaptureFrame ==
    \E id \in rafPending :
        IF ~cameraCapture.isCapturing
        THEN /\ rafPending' = rafPending \ {id}
             /\ UNCHANGED <<app, mapper, pointCloudBuilder, plainCloud, cameraCapture,
                            startsPending, optimizeCalls, call, offered>>
        ELSE \E st2 \in sceneResults(slam, cameraCapture.frameCallbacks) :
               LET r == captureFrameBody(cameraCapture, rafPending \ {id}, st2)
               IN  /\ withinBounds(r.st)
                   /\ cameraCapture' = r.cam
                   /\ rafPending' = r.pending
                   /\ app' = r.st.app
                   /\ mapper' = r.st.mapper
                   /\ pointCloudBuilder' = r.st.pointCloudBuilder
                   /\ UNCHANGED <<plainCloud, startsPending, optimizeCalls, call, offered>>

\* SLAMApp.stopCapture
AppStopCapture ==
    /\ cameraCapture' = stoppedCamera
    /\ rafPending' = stoppedPending
    /\ app' = stopCapture(slam).app
    /\ call' = [op |-> "stopCapture"]
    /\ UNCHANGED <<mapper, pointCloudBuilder, plainCloud, startsPending,
                   optimizeCalls, offered>>

\* SLAMApp.reset
AppReset ==
    /\ cameraCapture' = stoppedCamera
    /\ rafPending' = stoppedPending
    /\ mapper' = reset(slam).mapper
    /\ pointCloudBuilder' = reset(slam).pointCloudBuilder
    /\ app' = reset(slam).app
    /\ call' = [op |-> "reset"]
    /\ UNCHANGED <<plainCloud, startsPending, optimizeCalls, offered>>

NextCapture ==
    \/ AppStartCapture
    \/ InitializeRejected
    \/ AppStartCaptureResumed
    \/ AppCaptureFrame
    \/ AppStopCapture
    \/ AppReset

SpecCapture == Init /\ [][NextCapture]_vars

(***************************************************************************)
(* BundleAdjustment called directly on keyframes and points.               *)
(***************************************************************************)
\* keyframes handed to optimize
MaxAdjusted == 5

\* a rotation by a quarter turn about the optical axis
quarterTurnR == <<0, -1, 0, 1, 0, 0, 0, 0, 1>>

\* keyframe i of a camera that moves sideways (a = 1) or stands (a = 0), turned
\* or not, which saw a corner or none
adjustedKeyframe(i, a, turned, seen) ==
    [id |-> i - 1,
     pose |-> [R |-> IF turned THEN quarterTurnR ELSE identityR,
               t |-> Vector3(50 * a * (i - 1), 0, 0)],
     features |-> IF seen THEN <<feature(300 + 10 * i, 240)>> ELSE <<>>]

\* n points in front of the camera, two units away and farther
adjustedPoints(n) == [k \in 1..n |-> apiPoint(100 * k, 0, 2000 + 100 * k, 500, Undefined)]

adjustInputs ==
    {[op |-> "map",
      keyframes |-> [i \in 1..n |->
                        adjustedKeyframe(i, a, turned = i, unseen # i)],
      points3D |-> adjustedPoints(m)] :
        n \in 0..MaxAdjusted, a \in {0, 1}, turned \in 0..MaxAdjusted,
        unseen \in 0..MaxAdjusted, m \in 3..6}

InitAdjust ==
    /\ Constructed
    /\ call \in adjustInputs

\* optimize(keyframes, points3D)
OptimizeMap ==
    /\ call.op = "map"
    /\ call' = [op |-> "optimize", keyframes |-> call.keyframes,
                points3D |-> call.points3D,
                result |-> optimize(call.keyframes, call.points3D)]
    /\ UNCHANGED <<app, mapper, pointCloudBuilder, plainCloud, cameraCapture,
                   rafPending, startsPending, optimizeCalls, offered>>

NextAdjust == OptimizeMap

SpecAdjust == InitAdjust /\ [][NextAdjust]_vars

(***************************************************************************)
(* The loops of the pipeline, step by step: the iterations of              *)
(* PoseEstimator.ransacFundamentalMatrix with the loop of randomSample     *)
(* inside, the iterations of FeatureTracker.filterMatches and the passes   *)
(* of BundleAdjustment.optimize.  What ends a loop is a count, so a call   *)
(* is given by the counts of what it is handed.                            *)
(***************************************************************************)
\* PoseEstimator: this.ransacIterations
ransacIterations == 100
\* randomSample(points1.length, 8)
ransacSampleSize == 8
\* filterMatches(matches, features1, features2, iterations = 100, ...)
filterMatchesIterations == 100

\* estimatePose with this many matches gets as far as ransacFundamentalMatrix
entersRansac_Seven(matches) == ~(matches < 7)

entersRansac(matches) == ~(matches < 8)

\* one turn of the loop of randomSample: idx is pushed unless it is included
drawIndex(indices, idx) == IF idx \in indices THEN indices ELSE indices \cup {idx}

loopInputs ==
    {[op |-> "estimatePose", matches |-> n] : n \in 0..MaxCorrespondences}
    \cup {[op |-> "filterMatches", matches |-> n] : n \in 0..MaxCorrespondences}
    \cup {[op |-> "optimize", keyframes |-> k, points3D |-> m] :
             k \in 0..MaxAdjusted, m \in 3..6}

returned(from, n) == [op |-> "returned", from |-> from, iterations |-> n]

InitLoops ==
    /\ Constructed
    /\ call \in loopInputs

\* the call, up to its loop
EnterOperation ==
    /\ call.op \in {"estimatePose", "filterMatches", "optimize"}
    /\ call' = CASE call.op = "estimatePose" ->
                      IF entersRansac(call.matches)
                      THEN [op |-> "ransacFundamentalMatrix", size |-> call.matches,
                            iter |-> 0, indices |-> {}]
                      ELSE returned("estimatePose", 0)
                 [] call.op = "filterMatches" ->
                      IF call.matches < 8
                      THEN returned("filterMatches", 0)
                      ELSE [op |-> "filterMatches loop", iter |-> 0]
                 [] call.op = "optimize" ->
                      IF call.keyframes < 2 \/ call.points3D < 5
                      THEN returned("optimize", 0)
                      ELSE [op |-> "optimize loop", iter |-> 0]
    /\ UNCHANGED <<app, mapper, pointCloudBuilder, plainCloud, cameraCapture,
                   rafPending, startsPending, optimizeCalls, offered>>

\* randomSample: while (indices.length < count), one index is drawn
DrawIndex ==
    /\ call.op = "ransacFundamentalMatrix"
    /\ Cardinality(call.indices) < ransacSampleSize
    /\ \E idx \in 0..(call.size - 1) :
         call' = [call EXCEPT !.indices = drawIndex(@, idx)]
    /\ UNCHANGED <<app, mapper, pointCloudBuilder, plainCloud, cameraCapture,
                   rafPending, startsPending, optimizeCalls, offered>>

\* the rest of an iteration of ransacFundamentalMatrix, after randomSample has
\* returned: the inliers are counted over the points
EndRansacIteration ==
    /\ call.op = "ransacFundamentalMatrix"
    /\ Cardinality(call.indices) >= ransacSampleSize
    /\ call' = IF call.iter + 1 < ransacIterations
               THEN [call EXCEPT !.iter = @ + 1, !.indices = {}]
               ELSE returned("estimatePose", call.iter + 1)
    /\ UNCHANGED <<app, mapper, pointCloudBuilder, plainCloud, cameraCapture,
                   rafPending, startsPending, optimizeCalls, offered>>

\* one iteration of filterMatches: a sample by sort and slice, and a pass over the
\* matches
FilterIteration ==
    /\ call.op = "filterMatches loop"
    /\ call' = IF call.iter + 1 < filterMatchesIterations
               THEN [call EXCEPT !.iter = @ + 1]
               ELSE returned("filterMatches", call.iter + 1)
    /\ UNCHANGED <<app, mapper, pointCloudBuilder, plainCloud, cameraCapture,
                   rafPending, startsPending, optimizeCalls, offered>>

\* one pass of optimize: refinePoints and refinePoses, loops over the points and
\* the window
OptimizePass ==
    /\ call.op = "optimize loop"
    /\ call' = IF call.iter + 1 < iterations
               THEN [call EXCEPT !.iter = @ + 1]
               ELSE returned("optimize", call.iter + 1)
    /\ UNCHANGED <<app, mapper, pointCloudBuilder, plainCloud, cameraCapture,
                   rafPending, startsPending, optimizeCalls, offered>>

NextLoops ==
    \/ EnterOperation
    \/ DrawIndex
    \/ EndRansacIteration
    \/ FilterIteration
    \/ OptimizePass

\* a running operation takes its next step, and Math.random() does not give
\* indices that are included for ever (a draw of one leaves the state as it is)
SpecLoops ==
    InitLoops /\ [][NextLoops]_vars
    /\ WF_vars(EnterOperation) /\ WF_vars(DrawIndex) /\ WF_vars(EndRansacIteration)
    /\ WF_vars(FilterIteration) /\ WF_vars(OptimizePass)

(***************************************************************************)
(* Properties                                                              *)
(***************************************************************************)
\* a frame is tracked when processFrame matches it against the previous frame
isTracked(a, frame) ==
    a.lastFeatures # Null /\ a.lastDescriptors # Null /\ Len(frame.features) > 0

\* the tracker kept eight matches or more and the estimator returned a pose
poseEstimated(tracked) ==
    Len(tracked.filteredMatches) >= minMatches /\ tracked.pose # Null

\* the square of the translation between a pose and the last keyframe's pose
translation2(pose, kfs) ==
    LET last == kfs[Len(kfs)].pose.t
    IN  (pose.t.x - last.x) * (pose.t.x - last.x)
        + (pose.t.y - last.y) * (pose.t.y - last.y)
        + (pose.t.z - last.z) * (pose.t.z - last.z)

\* the keyframes `old`, in their order, begin the sequence `new` (a pose may have
\* been refined in place)
IsPrefixKeyframes(old, new) ==
    /\ Len(old) <= Len(new)
    /\ \A i \in 1..Len(old) : new[i].id = old[i].id /\ new[i].features = old[i].features

\* C1: in every reachable state, reset leaves the Mapper with no keyframe, no map
\* point and its id counter at 0 and the accumulator with no point, and the frame
\* processed next inserts a first keyframe with id 0 and the identity pose; the
\* same holds of a frame processed in any state whose Mapper has no keyframe
C1_ResetClearsEverything ==
    LET r == reset(slam)
    IN  /\ Len(r.mapper.keyframes) = 0
        /\ Len(r.mapper.points3D) = 0
        /\ r.mapper.currentKeyframeId = 0
        /\ getPointCount(r.pointCloudBuilder) = 0
        /\ \A f \in Frames : \A t \in trackChoices(r.app, f) :
             LET kfs == processFrame(startCaptureDone(r), f, t).mapper.keyframes
             IN  Len(kfs) = 1 /\ kfs[1].id = 0 /\ kfs[1].pose = initialPose
        /\ (mapper.keyframes = <<>> /\ app.isCapturing =>
              \A f \in Frames : \A t \in trackChoices(app, f) :
                 LET kfs == processFrame(slam, f, t).mapper.keyframes
                 IN  Len(kfs) = 1 /\ kfs[1].id = 0 /\ kfs[1].pose = initialPose)

\* a state with keyframes, map points and accumulated points, which reset clears
C1_Witness ==
    /\ Len(mapper.keyframes) >= 2
    /\ mapper.currentKeyframeId >= 2
    /\ Len(mapper.points3D) > 0
    /\ getPointCount(pointCloudBuilder) > 0
    /\ app.lastPose # Null /\ app.lastPose # Some(initialPose)
    /\ reset(slam).mapper.keyframes = <<>>

\* C2: the ids of the Mapper's keyframes increase strictly in insertion order (so
\* they are unique), every id is below the counter that numbers the next keyframe,
\* and after clear the counter is 0 and the first keyframe has id 0
C2_KeyframeIdsIncrease ==
    LET kfs == mapper.keyframes
    IN  /\ \A i \in 1..Len(kfs) : \A j \in 1..Len(kfs) : i < j => kfs[i].id < kfs[j].id
        /\ \A i \in 1..Len(kfs) : kfs[i].id < mapper.currentKeyframeId
        /\ (call.op = "clear" => mapper.currentKeyframeId = 0 /\ kfs = <<>>)
        /\ (kfs # <<>> => kfs[1].id = 0)
        /\ (call.op = "addKeyframe" => kfs # <<>> /\ kfs[Len(kfs)].id = call.id)

\* clear has just emptied a Mapper that held keyframes
C2_Witness ==
    call.op = "clear" /\ call.keyframes >= 2 /\ mapper.currentKeyframeId = 0

\* C3: every step that is not a reset keeps the keyframes there are, in their
\* order, at the head of the keyframe sequence, and a Mapper with the bootstrap
\* minimum of keyframes keeps at least that many
C3_KeyframesOnlyAppended ==
    [][\/ Reset
       \/ /\ IsPrefixKeyframes(mapper.keyframes, mapper'.keyframes)
          /\ (Len(mapper.keyframes) >= bootstrapKeyframes
                => Len(mapper'.keyframes) >= bootstrapKeyframes)]_vars

\* bundle adjustment has refined the pose of a keyframe of a Mapper that is
\* tracking, and the Mapper's points have been merged
C3_Witness ==
    /\ optimizeCalls > 0
    /\ Len(mapper.keyframes) > bootstrapKeyframes
    /\ \E i \in 1..Len(mapper.keyframes) :
         mapper.keyframes[i].pose \notin {initialPose, getPoseHypotheses[1]}
    /\ \A i \in 1..Len(mapper.keyframes) : mapper.keyframes[i].id = i - 1
    /\ Len(mapper.points3D) > 0
    /\ \A i \in 1..Len(mapper.points3D) : mapper.points3D[i].depth = Undefined

\* C4 as stated: every processed frame inserts a keyframe while the Mapper has
\* fewer than three keyframes, and every frame whose pose is farther from the last
\* keyframe than the threshold inserts one
C4_EveryFrameInserts ==
    app.isCapturing =>
        \A f \in Frames : \A t \in trackChoices(app, f) :
            (\/ Len(mapper.keyframes) < bootstrapKeyframes
             \/ /\ isTracked(app, f) /\ poseEstimated(t)
                /\ translation2(t.pose[1], mapper.keyframes)
                       > keyframeThreshold * keyframeThreshold)
            => Len(processFrame(slam, f, t).mapper.keyframes) = Len(mapper.keyframes) + 1

\* C4: a frame for which a pose was estimated inserts one keyframe, with that pose
\* and the next id, when the pose is farther from the last keyframe than the
\* threshold, and also, wherever the pose is, when the Mapper has fewer than three
\* keyframes
C4_PoseFrameInserts ==
    app.isCapturing =>
        \A f \in Frames : \A t \in trackChoices(app, f) :
            (/\ isTracked(app, f) /\ poseEstimated(t)
             /\ \/ Len(mapper.keyframes) < bootstrapKeyframes
                \/ translation2(t.pose[1], mapper.keyframes)
                       > keyframeThreshold * keyframeThreshold)
            => processFrame(slam, f, t).mapper.keyframes
                   = Append(mapper.keyframes,
                            [id |-> mapper.currentKeyframeId, pose |-> t.pose[1],
                             features |-> f.features])

\* a Mapper that is tracking and a frame whose pose is beyond the threshold, and a
\* frame that inserts its keyframe
C4_Witness ==
    /\ app.isCapturing
    /\ Len(mapper.keyframes) >= bootstrapKeyframes
    /\ mapper.currentKeyframeId = Len(mapper.keyframes)
    /\ \E f \in Frames : \E t \in trackChoices(app, f) :
         /\ isTracked(app, f) /\ poseEstimated(t)
         /\ translation2(t.pose[1], mapper.keyframes)
                > keyframeThreshold * keyframeThreshold
         /\ Len(processFrame(slam, f, t).mapper.keyframes) = Len(mapper.keyframes) + 1

\* C5 as stated: after the first frame, a frame without corners leaves the
\* keyframes, the map points and lastPose as they were
C5_EmptyFrameKeepsState ==
    app.isCapturing /\ app.lastFeatures # Null =>
        \A t \in trackChoices(app, FrameEmpty) :
            LET after == processFrame(slam, FrameEmpty, t)
            IN  /\ after.mapper.keyframes = mapper.keyframes
                /\ after.mapper.points3D = mapper.points3D
                /\ after.app.lastPose = app.lastPose

\* C6: a tracked frame that keeps fewer than eight filtered matches, or for which
\* no pose is estimated, leaves the keyframes, the map points, the accumulator and
\* lastPose as they were
C6_FailedFrameKeepsState ==
    app.isCapturing =>
        \A f \in Frames : \A t \in trackChoices(app, f) :
            (isTracked(app, f) /\ ~poseEstimated(t)) =>
                LET after == processFrame(slam, f, t)
                IN  /\ after.mapper.keyframes = mapper.keyframes
                    /\ after.mapper.points3D = mapper.points3D
                    /\ after.mapper.currentKeyframeId = mapper.currentKeyframeId
                    /\ after.pointCloudBuilder = pointCloudBuilder
                    /\ after.app.lastPose = app.lastPose

\* a session with map points where one frame would keep some matches but fewer
\* than eight, and another eight or more without a pose
C6_Witness ==
    /\ app.isCapturing
    /\ Len(mapper.points3D) > 0
    /\ app.lastPose # Null
    /\ \E f \in Frames : \E t \in trackChoices(app, f) :
         /\ isTracked(app, f)
         /\ Len(t.filteredMatches) > 0 /\ Len(t.filteredMatches) < minMatches
         /\ processFrame(slam, f, t).mapper = mapper
    /\ \E f \in Frames : \E t \in trackChoices(app, f) :
         /\ isTracked(app, f)
         /\ Len(t.filteredMatches) >= minMatches /\ t.pose = Null
         /\ processFrame(slam, f, t).mapper = mapper

\* the depth triangulatePointAccurate computes for match k of the last call
matchDepth(k) ==
    LET m == call.matches[k]
    IN  depthOf(disparityOf(call.features1[m.queryIdx], call.features2[m.trainIdx]))

depthInRange(k) == matchDepth(k) >= minDepth /\ matchDepth(k) <= maxDepth

\* C7: every point triangulatePoints returns has its depth within
\* [minDepth, maxDepth], the depth is the one computed for a match whose depth is
\* in that range, and there are no more points than such matches
C7_DepthWithinRange ==
    call.op = "triangulatePoints" =>
        LET in == {k \in 1..Len(call.matches) : depthInRange(k)}
        IN  /\ \A i \in 1..Len(call.points) :
                 /\ call.points[i].depth >= minDepth
                 /\ call.points[i].depth <= maxDepth
                 /\ \E k \in in : call.points[i].depth = matchDepth(k)
            /\ Len(call.points) <= Cardinality(in)

\* a call with a match whose depth is below minDepth and a match that gives a point
C7_Witness ==
    /\ call.op = "triangulatePoints"
    /\ \E k \in 1..Len(call.matches) : matchDepth(k) < minDepth
    /\ Len(call.points) = 1

\* C8 as stated: the Mapper stores no point with a confidence below 0.3, and
\* every point offered with a confidence of 0.3 or more is stored
C8_NoLowConfidenceStored ==
    /\ \A i \in 1..Len(mapper.points3D) :
         mapper.points3D[i].confidence >= mapperMinConfidence
    /\ (call.op = "addPoints" =>
          \A k \in 1..Len(call.points) :
             call.points[k].confidence >= mapperMinConfidence
                => \E i \in 1..Len(mapper.points3D) : mapper.points3D[i] = call.points[k])

\* the position of a point is one of the positions of a snapshot
hasPosition(positions, point) ==
    \E i \in 1..(Len(positions) \div 3) :
        /\ positions[3 * i - 2] = point.position.x
        /\ positions[3 * i - 1] = point.position.y
        /\ positions[3 * i] = point.position.z

\* C9 as stated, of both accumulators: after points are offered, a point below the
\* minimum confidence is in no snapshot, and a point at or above it is in both
C9_SnapshotFiltersByConfidence ==
    call.op = "addPoints" =>
        \A k \in 1..Len(call.points) :
            IF call.points[k].confidence < minConfidence
            THEN /\ ~hasPosition(getPointCloudData(pointCloudBuilder).positions,
                                 call.points[k])
                 /\ ~hasPosition(Plain_getPointCloudData(plainCloud).positions,
                                 call.points[k])
            ELSE /\ hasPosition(getPointCloudData(pointCloudBuilder).positions,
                                call.points[k])
                 /\ hasPosition(Plain_getPointCloudData(plainCloud).positions,
                                call.points[k])

\* no two points of a store are in the same voxel
oneMapPointPerVoxel(store) ==
    \A i \in 1..Len(store) : \A j \in 1..Len(store) :
        voxelKey(store[i].position, voxelSize) = voxelKey(store[j].position, voxelSize)
            => i = j

oneCloudPointPerVoxel(pc) ==
    \A i \in 1..getPointCount(pc) : \A j \in 1..getPointCount(pc) :
        cloudVoxel(pc, i) = cloudVoxel(pc, j) => i = j

\* C10: for the points of the Mapper and of the accumulator in every reachable
\* state, the merged points have one point to a voxel and merging them again
\* returns them unchanged
C10_MergeIdempotent ==
    LET m1 == Mapper_mergeNearbyPoints(mapper.points3D)
        c1 == PointCloudBuilder_mergeNearbyPoints(pointCloudBuilder)
    IN  /\ oneMapPointPerVoxel(m1)
        /\ Mapper_mergeNearbyPoints(m1) = m1
        /\ oneCloudPointPerVoxel(c1)
        /\ PointCloudBuilder_mergeNearbyPoints(c1) = c1

\* both stores hold points that share a voxel and a point in another voxel
C10_Witness ==
    /\ Len(mapper.points3D) = 3
    /\ Len(Mapper_mergeNearbyPoints(mapper.points3D)) = 2
    /\ getPointCount(pointCloudBuilder) = 3
    /\ getPointCount(PointCloudBuilder_mergeNearbyPoints(pointCloudBuilder)) = 2

\* C11 as stated: after filterOutliers has run on an accumulator, running it again
\* leaves the points of that accumulator as they are
C11_FilterOutliersIdempotent ==
    /\ (call.op = "PointCloudBuilder.filterOutliers"
          => filterOutliers(pointCloudBuilder) = pointCloudBuilder)
    /\ (call.op = "Plain.filterOutliers"
          => Plain_filterOutliers(plainCloud) = plainCloud)

\* C12: in every state of the accumulator reached by addPoints, filterOutliers,
\* mergeNearbyPoints and clear, points and colors hold three entries and confidences
\* and depths one entry for each of its points, and the snapshot reports that count,
\* positions and colors of three entries a point and, when it carries confidences
\* and depths (it does unless the accumulator is empty), one of each a point
C12_ParallelArraysAligned ==
    LET pc == pointCloudBuilder
        n == getPointCount(pc)
        data == getPointCloudData(pc)
    IN  /\ Len(pc.points) = 3 * n
        /\ Len(pc.colors) = 3 * n
        /\ Len(pc.confidences) = n
        /\ Len(pc.depths) = n
        /\ data.count = n
        /\ Len(data.positions) = 3 * n
        /\ Len(data.colors) = 3 * n
        /\ (data.hasConfidences => Len(data.confidences) = n /\ Len(data.depths) = n)
        /\ (~data.hasConfidences => n = 0)

\* filterOutliers has removed points of an accumulator whose points were merged
\* before, and points are left
C12_Witness ==
    /\ call.op = "PointCloudBuilder.filterOutliers"
    /\ getPointCount(pointCloudBuilder) >= 9
    /\ getPointCount(pointCloudBuilder) < getPointCount(plainCloud)
    /\ getPointCount(PointCloudBuilder_mergeNearbyPoints(pointCloudBuilder))
           < getPointCount(pointCloudBuilder)
    /\ getPointCloudData(pointCloudBuilder).hasConfidences

\* C13: detect returns no more keypoints than maxFeatures, in an order in which no
\* keypoint scores more than one before it, and every one of them is a corner of
\* the image
C13_DetectBoundedAndSorted ==
    call.op = "detect" =>
        /\ Len(call.features) <= call.maxFeatures
        /\ \A i \in 1..Len(call.features) : \A j \in 1..Len(call.features) :
             i < j => call.features[i].score >= call.features[j].score
        /\ \A i \in 1..Len(call.features) :
             \E k \in 1..Len(call.corners) : call.features[i] = call.corners[k]

\* an image with more corners left by the suppression than the detector returns,
\* which returns two corners of different scores or more
C13_Witness ==
    /\ call.op = "detect"
    /\ Len(nonMaximumSuppression(call.corners, suppressionRadius)) > call.maxFeatures
    /\ Len(call.features) = call.maxFeatures
    /\ Len(call.features) >= 2
    /\ call.features[1].score > call.features[2].score
    /\ call.corners[1].score < call.corners[2].score

\* the candidates of query feature i within the search radius
inRadius(c, i) ==
    {j \in 1..Len(c.features2) :
        euclideanDistance2(c.features1[i], c.features2[j]) <= maxDistance * maxDistance}

\* C14: every match returned by match is to a candidate within the search radius
\* that no candidate within it beats, and either there is no other candidate within
\* the radius or the match's distance is less than 0.8 times the distance of each
\* of the others (so two candidates that tie for best give no match, and a best
\* distance of 0 needs every other distance to be above 0)
C14_MatchesPassRatioTest ==
    call.op = "match" =>
        \A k \in 1..Len(call.matches) :
            LET m == call.matches[k]
                distanceTo(j) == hammingDistance(call.descriptors1[m.queryIdx],
                                                 call.descriptors2[j])
            IN  /\ m.trainIdx \in inRadius(call, m.queryIdx)
                /\ m.distance = distanceTo(m.trainIdx)
                /\ \A j \in inRadius(call, m.queryIdx) \ {m.trainIdx} :
                     10 * m.distance < 8 * distanceTo(j)

\* a match of distance 0 returned with another candidate within the radius, while
\* the other query feature, whose best candidates are too close, got none
C14_Witness ==
    /\ call.op = "match"
    /\ Len(call.matches) = 1
    /\ call.matches[1].distance = 0
    /\ Cardinality(inRadius(call, call.matches[1].queryIdx)) = 3
    /\ \A j \in 1..Len(call.descriptors2) : Len(call.descriptors2[j]) = 1

\* C15: for descriptors of equal length hammingDistance gives the same either way
\* round, and gives 0 exactly when the two are the same element by element
C15_HammingSymmetricZeroIffEqual ==
    (call.op = "hammingDistance" /\ Len(call.desc1) = Len(call.desc2)) =>
        /\ call.distance = call.swapped
        /\ call.distance = 0 <=>
             \A i \in 1..Len(call.desc1) : call.desc1[i] = call.desc2[i]

\* descriptors of the full length that differ in elements whose differences are
\* of opposite signs
C15_Witness ==
    /\ call.op = "hammingDistance"
    /\ Len(call.desc1) = MaxDescriptorLength
    /\ Len(call.desc2) = MaxDescriptorLength
    /\ \E i, j \in 1..MaxDescriptorLength :
         call.desc1[i] < call.desc2[i] /\ call.desc1[j] > call.desc2[j]
    /\ call.distance > 0

\* C19: filterMatches given fewer than 8 matches returns them, all and in order
C19_FewMatchesUnfiltered ==
    (call.op = "filterMatches" /\ Len(call.matches) < 8) =>
        call.filtered = call.matches

\* seven matches, one of them off the others' translation, and iterations whose
\* samples would have dropped it
C19_Witness ==
    /\ call.op = "filterMatches"
    /\ Len(call.matches) = 7
    /\ call.matches[1].queryIdx = 7
    /\ call.filtered = call.matches
    /\ Len(call.samples) = 2
    /\ Len(filterIterations(call.matches, call.features1, call.features2,
                            call.samples, <<>>)) = 6

\* C16: estimatePose (of either estimator) called with fewer than 8 correspondences
\* returns null, and leaves its arguments and every object as they were
C16_FewCorrespondencesNoPose ==
    [][(call.op = "correspondences" /\ Len(call.matches) < 8) =>
          /\ call'.pose = Null
          /\ call'.plainPose = Null
          /\ call'.features1 = call.features1
          /\ call'.features2 = call.features2
          /\ call'.matches = call.matches
          /\ UNCHANGED <<app, mapper, pointCloudBuilder, plainCloud, cameraCapture,
                         rafPending, startsPending, optimizeCalls, offered>>]_vars

\* seven correspondences, each of which moved by one pixel, got no pose
C16_Witness ==
    /\ call.op = "estimatePose"
    /\ Len(call.matches) = 7
    /\ \A k \in 1..7 :
         euclideanDistance2(call.features1[call.matches[k].queryIdx],
                            call.features2[call.matches[k].trainIdx]) = 1
    /\ call.pose = Null

\* the pixels (dx, dy) by which correspondence k of a call moved
movedBy(c, k) ==
    <<c.features2[c.matches[k].trainIdx].x - c.features1[c.matches[k].queryIdx].x,
      c.features2[c.matches[k].trainIdx].y - c.features1[c.matches[k].queryIdx].y>>

\* the correspondences are those of a camera that moved sideways: every feature
\* moved along the image's x axis, in the same direction, by a pixel or more
sidewaysMotion(c) ==
    \A k \in 1..Len(c.matches) : movedBy(c, k)[2] = 0 /\ movedBy(c, k)[1] >= 1

\* C17: estimatePose called with exactly 8 correspondences of a camera that moved
\* sideways returns a pose
C17_EightConsistentGivePose ==
    (call.op = "estimatePose" /\ Len(call.matches) = 8 /\ sidewaysMotion(call)) =>
        call.pose # Null

\* the correspondences of a call that epipolarError puts below the threshold of
\* 2 pixels
inlierCount(c) ==
    Cardinality({k \in 1..Len(c.matches) :
                    movedBy(c, k)[1] * movedBy(c, k)[1]
                    + movedBy(c, k)[2] * movedBy(c, k)[2] < 4})

\* no hypothesis has a point of the call's correspondences in front of the cameras
noneInFront(c) ==
    LET points1 == [k \in 1..Len(c.matches) |-> c.features1[c.matches[k].queryIdx]]
        points2 == [k \in 1..Len(c.matches) |-> c.features2[c.matches[k].trainIdx]]
    IN  \A h \in 1..Len(getPoseHypotheses) :
            pointsInFrontOf(getPoseHypotheses[h], points1, points2) = 0

\* C20: estimatePose returns no pose when fewer than 8 correspondences are
\* inliers, and none when no hypothesis has a point in front of the cameras
C20_NoPoseWithoutInliersOrDepth ==
    call.op = "estimatePose" =>
        /\ inlierCount(call) < 8 => call.pose = Null
        /\ noneInFront(call) => call.pose = Null

\* C18: computeDescriptor called twice for the same keypoint of the same image
\* returns the same descriptor
C18_DescriptorRepeatable ==
    (call.op = "computeDescriptor" /\ call.previous # Null) =>
        call.descriptor = call.previous[1]

\* the map: the Mapper's keyframes and points, and the accumulator
mapOf(st) == <<st.mapper, st.pointCloudBuilder>>

\* C21: a frame in whose processing a stage raises an error leaves the capture
\* loop running (capturing on, the next animation frame requested), and leaves the
\* map either as it was or as the frame processed without the error leaves it
C21_FrameErrorsContained ==
    [][\A id \in rafPending, frame \in Frames :
         \A tracked \in trackChoices(app, frame) :
            \A caught \in throwResults(slam, frame, tracked) :
                CaptureFrameThrowing(id, caught) =>
                    /\ cameraCapture'.isCapturing
                    /\ rafPending' # {}
                    /\ \/ <<mapper', pointCloudBuilder'>> = <<mapper, pointCloudBuilder>>
                       \/ <<mapper', pointCloudBuilder'>>
                            = mapOf(processFrame(slam, frame, tracked))]_vars

\* C22: a step that starts with capturing off, or that turns it off, leaves the
\* Mapper's keyframes and points and the accumulator as they are, or (reset)
\* empties them all: stopCapture changes nothing in the store, and no frame
\* adds to it until isCapturing is on again
C22_StopLeavesStoreAlone ==
    [][(~app.isCapturing \/ ~app'.isCapturing) =>
          \/ mapper' = mapper /\ pointCloudBuilder' = pointCloudBuilder
          \/ /\ mapper' = Mapper_clear(mapper)
             /\ pointCloudBuilder' = emptyCloud]_vars

\* capture was stopped with keyframes and points in the store, while a
\* startCapture awaits the camera (its first captureFrame will deliver a frame
\* before the application is capturing)
C22_Witness ==
    /\ ~app.isCapturing
    /\ ~cameraCapture.isCapturing
    /\ app.lastFeatures # Null
    /\ startsPending > 0
    /\ Len(mapper.keyframes) >= 2
    /\ Len(mapper.points3D) > 0

\* C23: at any time at most one capture-loop callback is pending and at most one
\* frame callback is registered
C23_OneLoopOneCallback ==
    /\ Cardinality(rafPending) <= 1
    /\ cameraCapture.frameCallbacks <= 1

\* C29: when the last call of startCapture, stopCapture and reset was stopCapture
\* or reset, capturing is off in the application and in the camera, and after
\* reset the store holds no keyframe and no point
C29_StoppedStaysStopped ==
    call.op \in {"stopCapture", "reset"} =>
        /\ ~app.isCapturing
        /\ ~cameraCapture.isCapturing
        /\ call.op = "reset" =>
             /\ mapper.keyframes = <<>>
             /\ mapper.points3D = <<>>
             /\ getPointCount(pointCloudBuilder) = 0

\* C24: optimize returns the keyframes it was given, each with its id, features
\* and rotation, and with its translation too unless the keyframe is one of the
\* last three and not the earliest of them
C24_OnlyWindowTailMoves ==
    call.op = "optimize" =>
        LET before == call.keyframes
            after == call.result.keyframes
            n == Len(before)
        IN  /\ Len(after) = n
            /\ \A i \in 1..n :
                 /\ after[i].id = before[i].id
                 /\ after[i].features = before[i].features
                 /\ after[i].pose.R = before[i].pose.R
                 /\ (i <= n - 2 \/ i = 1) => after[i].pose.t = before[i].pose.t

\* five keyframes of which optimize moved the last two, the third having seen a
\* corner as well
C24_Witness ==
    /\ call.op = "optimize"
    /\ Len(call.keyframes) = 5
    /\ \A i \in 1..5 : Len(call.keyframes[i].features) > 0
    /\ \E i \in 1..5 : call.keyframes[i].pose.R # identityR
    /\ \A i \in 4..5 : call.result.keyframes[i].pose.t # call.keyframes[i].pose.t

pointAt(points, i) == <<points[3 * i - 2], points[3 * i - 1], points[3 * i]>>

\* C26: when filterOutliers runs on 9 points or more, no point without a neighbour
\* within the radius is left in the accumulator
C26_IsolatedPointsRemoved ==
    [][(call'.op = "PointCloudBuilder.filterOutliers"
        /\ Len(pointCloudBuilder.points) >= 27)
       => LET neighbors == findNeighbors(pointCloudBuilder)
          IN  \A i \in 1..Len(neighbors) :
                neighbors[i] = <<>>
                => \A k \in 1..(Len(pointCloudBuilder'.points) \div 3) :
                     pointAt(pointCloudBuilder'.points, k)
                         # pointAt(pointCloudBuilder.points, i)]_vars

\* the filter has run on nine points none of which had a neighbour
C26_Witness ==
    /\ call.op = "PointCloudBuilder.filterOutliers"
    /\ offered = 9
    /\ pointCloudBuilder.points = <<>>

\* C27: every point of triangulatePoints has a confidence from 0 to 1, and of two
\* points of a call the one with the greater depth has the smaller confidence
C27_ConfidenceFallsWithDepth ==
    call.op = "triangulatePoints"
    => /\ \A i \in 1..Len(call.points) :
            call.points[i].confidence >= 0 /\ call.points[i].confidence <= 1000
       /\ \A i, j \in 1..Len(call.points) :
            call.points[i].depth < call.points[j].depth
            => call.points[i].confidence > call.points[j].confidence

\* a call has given a near point and a far point
C27_Witness ==
    /\ call.op = "triangulatePoints"
    /\ Len(call.points) = 2
    /\ call.points[1].depth < call.points[2].depth
    /\ call.points[1].confidence > call.points[2].confidence

RECURSIVE isSublist(_, _)
\* sub is full with some of its elements left out
isSublist(sub, full) ==
    IF sub = <<>> THEN TRUE
    ELSE IF full = <<>> THEN FALSE
    ELSE IF Head(sub) = Head(full) THEN isSublist(Tail(sub), Tail(full))
    ELSE isSublist(sub, Tail(full))

\* match m is less than 3 pixels from the mean translation of the sampled matches
\* (4 times the deviation is less than 12)
nearSampleMean(m, sample) ==
    LET shiftX(q) == call.features2[q.trainIdx].x - call.features1[q.queryIdx].x
        shiftY(q) == call.features2[q.trainIdx].y - call.features1[q.queryIdx].y
        n == Len(sample)
        ex == n * shiftX(m) - SumSeq([k \in 1..n |-> shiftX(call.matches[sample[k]])])
        ey == n * shiftY(m) - SumSeq([k \in 1..n |-> shiftY(call.matches[sample[k]])])
    IN  ex * ex + ey * ey < (3 * n) * (3 * n)

\* the number of matches near the mean translation of a sample
nearCount(sample) ==
    Cardinality({i \in 1..Len(call.matches) : nearSampleMean(call.matches[i], sample)})

\* C28: filterMatches returns its matches with some left out, in their order; of 8
\* matches or more it returns as many as the best iteration had inliers, all of
\* them less than 3 pixels from that iteration's translation
C28_InliersOfBestIteration ==
    call.op = "filterMatches"
    => /\ isSublist(call.filtered, call.matches)
       /\ Len(call.matches) >= 8
          => /\ \A k \in 1..Len(call.samples) :
                  nearCount(call.samples[k]) <= Len(call.filtered)
             /\ \/ call.filtered = <<>>
                \/ \E k \in 1..Len(call.samples) :
                     /\ nearCount(call.samples[k]) = Len(call.filtered)
                     /\ \A i \in 1..Len(call.filtered) :
                          nearSampleMean(call.filtered[i], call.samples[k])

\* nine matches from last to first, the second off the others' translation: the
\* first iteration sampled the good ones, the second one did not
C28_Witness ==
    /\ call.op = "filterMatches"
    /\ Len(call.matches) = 9
    /\ call.matches[1].queryIdx = 9
    /\ Len(call.samples) = 2
    /\ nearCount(call.samples[1]) = 8
    /\ nearCount(call.samples[2]) = 0
    /\ Len(call.filtered) = 8

\* C30: the accumulator holds as many points as the Mapper, and every point of its
\* snapshot is the position of a point of the Mapper
C30_AccumulatorMatchesMapper ==
    /\ getPointCount(pointCloudBuilder) = Len(mapper.points3D)
    /\ \A k \in 1..getPointCount(pointCloudBuilder) :
         \E i \in 1..Len(mapper.points3D) :
            pointAt(pointCloudBuilder.points, k)
                = <<mapper.points3D[i].position.x, mapper.points3D[i].position.y,
                    mapper.points3D[i].position.z>>

=============================================================================
